---- MODULE Spec2Model ----
(***************************************************************************)
(* The plan orchestrator of NexusAI: the public facade                     *)
(* (brain/orchestrator/executor.py), the native runner                     *)
(* (brain/orchestrator/custom_runner.py), the agent runner                 *)
(* (brain/orchestrator/langchain_runner.py), the tool registry             *)
(* (brain/orchestrator/tools.py) and the result model                      *)
(* (brain/orchestrator/schema.py).  One run of execute_plan is modelled    *)
(* as a state machine whose program counter follows the statements of      *)
(* the runner's execute_plan and of CustomRunner._execute_step.  Further  *)
(* specifications cover two concurrent runs, the persistence of a result,  *)
(* the fallback scheduler (tasks/scheduler.py) and the session manager of  *)
(* the browser service (browser_service/session_manager.py).               *)
(***************************************************************************)
EXTENDS Integers, Sequences, FiniteSets, TLC

VARIABLES
    plan,          \* the raw plan handed to execute_plan (sequence of step records)
    pc,            \* position of the calling thread in the facade / runner code
    result,        \* the ExecutionResult of the run (exists = FALSE before it is created)
    idx,           \* position in validated_steps of the step the for loop is at
    attempt,       \* 1 in the first try block of the step, 2 in the retry block
    step_context,  \* dict step_context, as a sequence of <<key, value>> in insertion order
    worker,        \* the worker thread of the ThreadPoolExecutor of the current attempt
    pending,       \* message of the exception raised by the current attempt
    calls,         \* history: every tool invocation, [pos, attempt, html, outcome, value]
    notes,         \* history: every on_update notification, [step_id, status, raised]
    cbRaised,      \* history: some on_update call raised
    saved,         \* history: the outcome of each save_execution_result call
    runnerCalls,   \* number of times a runner's execute_plan was entered
    output,        \* the value the tool call of the current attempt returned
    outs,          \* the values the tools of this run may return
    escaped,       \* the exception that left execute_plan ("none" when none did)
    tool_registry,      \* names registered in tools.tool_registry
    functions,          \* ToolRegistry._tools: the function held under each name
    registered,         \* history: the register calls made, [name, func]
    got,                \* what the last query (get_tool, list_tools, get_final_output,
                        \* get_step_outputs) gave its caller: a set of values
    langchain_enabled,  \* config flag LANGCHAIN_ENABLED
    langchain_available,\* langchain_runner.LANGCHAIN_AVAILABLE
    custom_runner,      \* executor._custom_runner is not None
    langchain_runner,   \* executor._langchain_runner is not None
    runner,             \* the runner get_runner returned to execute_plan
    runs,               \* the threads that call execute_plan concurrently: for each
                        \* its position and the locals of its execute_plan frame
    file,               \* the result file of the task in the output directory
    scheduled_jobs,     \* Redis sorted set "scheduled_jobs": job id -> timestamp
    job_data,           \* the job ids that have a Redis hash "scheduled_job:<id>"
    queue,              \* the RQ queue: the scheduled jobs enqueued, in order
    poll,               \* the frame of _basic_run: position, current_time,
                        \* ready_job_ids and the index of the for loop
    now,                \* the clock
    jobs,               \* history: for each job id its scheduled time, whether it
                        \* was cancelled before that time, and whether it failed
    browser,            \* SessionManager.browser is set
    sessions,           \* SessionManager.sessions: session id -> SessionInfo
    contexts,           \* history: the browser contexts new_context created, each
                        \* with its session id and whether close() was called on it
    storage             \* the session ids that have a storage state file

\* the session manager of browser_service/session_manager.py
browsing == <<browser, sessions, contexts, storage>>

\* the fallback scheduler of tasks/scheduler.py and what it keeps in Redis,
\* and the session manager
services == <<scheduled_jobs, job_data, queue, poll, now, jobs, browsing>>

\* what no step of a run changes: the configuration and the registry
backend == <<tool_registry, functions, registered, got, langchain_enabled,
             langchain_available, runs, file, services>>

\* what only get_runner changes
sel == <<custom_runner, langchain_runner, runner>>

vars == <<plan, pc, result, idx, attempt, step_context, worker, pending,
          calls, notes, cbRaised, saved, runnerCalls, output, outs, escaped,
          backend, sel>>

----------------------------------------------------------------------------
(* Bounds of the model.                                                    *)

\* longest plan submitted
MaxSteps == 2
\* largest retry budget a step declares
MaxRetry == 2
\* longest plan of the runs that pass data between steps
MaxCtxSteps == 3
\* largest number of register calls made on the registry
MaxRegisters == 2

----------------------------------------------------------------------------
(* Plan steps: PlanStep of brain/orchestrator/schema.py.                   *)

ToolNames == {"search", "open", "extract", "screenshot", "download"}

\* required_args of PlanStep.validate_tool_args, in the order of its lists
required_args(tool) ==
    CASE tool = "search"     -> <<"query">>
      [] tool = "open"       -> <<"url">>
      [] tool = "extract"    -> <<"selector">>
      [] tool = "screenshot" -> <<"url">>
      [] tool = "download"   -> <<"url", "filename">>
      [] OTHER               -> <<>>

RequiredArgs(tool) ==
    { required_args(tool)[k] : k \in 1..Len(required_args(tool)) }

\* confidence is kept in tenths: 10 stands for 1.0
ConfidenceOne == 10

\* validate_tool_args that checks the first required argument only
validate_tool_args_FirstOnly(s) ==
    /\ s.tool \in ToolNames
    /\ required_args(s.tool)[1] \in s.args

\* PlanStep(**step) succeeds: tool is one of the Literal names, every required
\* argument is in args, confidence is within [0.0, 1.0] and retry >= 0
validate_tool_args(s) ==
    /\ s.tool \in ToolNames
    /\ \A a \in RequiredArgs(s.tool) : a \in s.args \/ a = "html"

PlanStepValid(s) ==
    /\ validate_tool_args(s)
    /\ s.confidence >= 0 /\ s.confidence <= ConfidenceOne
    /\ s.retry >= 0

\* the errors PlanStep(**step) reports, field by field in the order of the
\* fields: tool is checked against the Literal; args by validate_tool_args,
\* which raises at the first missing argument of the list and checks nothing
\* when tool was rejected (lines 26-27); confidence and retry by their bounds
ToolErrors(s) ==
    IF s.tool \in ToolNames THEN <<>> ELSE <<"tool", "unexpected value">>

ArgsErrors(s) ==
    LET req     == required_args(s.tool)
        missing == { k \in 1..Len(req) : req[k] \notin s.args /\ req[k] # "html" }
    IN  IF s.tool \in ToolNames /\ missing # {}
        THEN LET first == CHOOSE k \in missing : \A j \in missing : k <= j
             IN  <<"args", "Missing required argument", req[first],
                   "for tool", s.tool>>
        ELSE <<>>

ConfidenceErrors(s) ==
    CASE s.confidence < 0 ->
            <<"confidence", "ensure this value is greater than or equal to 0.0">>
      [] s.confidence > ConfidenceOne ->
            <<"confidence", "ensure this value is less than or equal to 1.0">>
      [] OTHER -> <<>>

RetryErrors(s) ==
    IF s.retry < 0
    THEN <<"retry", "ensure this value is greater than or equal to 0">>
    ELSE <<>>

ValidationErrors(s) ==
    ToolErrors(s) \o ArgsErrors(s) \o ConfidenceErrors(s) \o RetryErrors(s)

\* validated_steps = [PlanStep(**step) for step in plan_steps] does not raise;
\* step_id is any integer: no field of PlanStep relates it to the position
PlanValid(p) == \A i \in 1..Len(p) : PlanStepValid(p[i])

----------------------------------------------------------------------------
(* The plans submitted.                                                    *)

\* the retry budgets tried: none, one, and the largest
RetryValues == {0, 1, MaxRetry}

\* how the step ids of a plan are laid out
IdPatterns == {"sequential", "reversed", "duplicate", "shifted"}

IdAt(pattern, i, n) ==
    CASE pattern = "sequential" -> i
      [] pattern = "reversed"   -> n + 1 - i
      [] pattern = "duplicate"  -> 1
      [] pattern = "shifted"    -> i + 1

\* steps that pass validation and are executed
GoodBodies ==
    [tool : {"open"}, args : {{"url"}}, confidence : {5},
     retry : RetryValues, requires_human : BOOLEAN]

\* steps that PlanStep rejects: unknown tool, missing argument, confidence
\* out of range, negative retry
BadBodies ==
    { [tool |-> "nonexistent_tool", args |-> {"param"}, confidence |-> 5,
       retry |-> 0, requires_human |-> FALSE],
      [tool |-> "download", args |-> {"url"}, confidence |-> 5,
       retry |-> 0, requires_human |-> FALSE],
      [tool |-> "open", args |-> {"url"}, confidence |-> 11,
       retry |-> 0, requires_human |-> FALSE],
      [tool |-> "open", args |-> {"url"}, confidence |-> 5,
       retry |-> 0 - 1, requires_human |-> FALSE] }

StepBodies == GoodBodies \cup BadBodies

WithId(b, id) ==
    [step_id |-> id, tool |-> b.tool, args |-> b.args, confidence |-> b.confidence,
     retry |-> b.retry, requires_human |-> b.requires_human]

Plans ==
    UNION { { [i \in 1..n |-> WithId(body[i], IdAt(pat, i, n))] :
                body \in [1..n -> StepBodies] } :
            n \in 0..MaxSteps, pat \in IdPatterns }

\* plans of open and extract steps, for the runs that pass data between
\* steps: the extract steps declare no html argument
CtxBodies ==
    { [tool |-> "open", args |-> {"url"}, confidence |-> 5,
       retry |-> 0, requires_human |-> FALSE],
      [tool |-> "extract", args |-> {"selector"}, confidence |-> 5,
       retry |-> 0, requires_human |-> FALSE] }

\* a last step that declares one retry and human intervention
CtxLastBody ==
    [tool |-> "extract", args |-> {"selector"}, confidence |-> 5,
     retry |-> 1, requires_human |-> TRUE]

CtxPlans ==
    UNION { { [i \in 1..n |-> WithId(body[i], IdAt(pat, i, n))] :
                body \in { b \in [1..n -> CtxBodies \cup {CtxLastBody}] :
                             \A i \in 1..(n - 1) : b[i] \in CtxBodies } } :
            n \in 1..MaxCtxSteps, pat \in {"sequential", "duplicate"} }

----------------------------------------------------------------------------
(* The result model: ExecutionStepResult and ExecutionResult.              *)

\* None, as an output value
Null == "null"

\* None or the empty string, as a message; a message is a sequence of its parts
NoMsg == <<>>

NoResult ==
    [exists |-> FALSE, status |-> "running", steps |-> <<>>,
     finished |-> FALSE, error_message |-> NoMsg]

\* ExecutionResult(task_id=task_id, status="running", session_id=session_id)
NewResult ==
    [exists |-> TRUE, status |-> "running", steps |-> <<>>,
     finished |-> FALSE, error_message |-> NoMsg]

\* ExecutionStepResult(step_id=step.step_id, status="running")
NewStepResult(id) ==
    [step_id |-> id, status |-> "running", output |-> Null,
     error_message |-> NoMsg, finished |-> FALSE, retry_count |-> 0]

\* ExecutionStepResult.mark_finished(status, output, error_message)
StepMarkFinished(sr, status, out, msg) ==
    [sr EXCEPT !.finished = TRUE,
               !.status = status,
               !.output = IF out # Null THEN out ELSE @,
               !.error_message = IF msg # NoMsg THEN msg ELSE @]

\* mark_finished that forgets the message
ResultMarkFinished_NoMessage(r, status, msg) ==
    [r EXCEPT !.finished = TRUE, !.status = status]

\* ExecutionResult.mark_finished(status, error_message)
ResultMarkFinished(r, status, msg) ==
    [r EXCEPT !.finished = TRUE,
              !.status = status,
              !.error_message = IF msg # NoMsg THEN msg ELSE @]

\* step_context[key] = value: a dict keeps the position of a key it already has
DictSet(d, key, value) ==
    IF \E k \in 1..Len(d) : d[k][1] = key
    THEN [k \in 1..Len(d) |-> IF d[k][1] = key THEN <<key, value>> ELSE d[k]]
    ELSE Append(d, <<key, value>>)

\* the messages the runner composes
ToolFailedMsg  == <<"Tool execution failed">>
\* a timeout reported with the message of a tool failure
TimeoutMsg_AsToolFailure == ToolFailedMsg
TimeoutMsg     == <<"Step timed out after step_timeout seconds">>
ToolMissingMsg == <<"Tool not available">>
CallbackMsg    == <<"on_update raised">>
AfterRetriesMsg(e)  == <<"Step failed after retries">> \o e
HumanMsg(e)         == <<"Human intervention required">> \o e
StepFailedMsg(e)    == <<"Step failed">> \o e
RequiresHumanMsg    == <<"Step requires human intervention">>
InvalidPlanMsg      == <<"Invalid plan format">>

\* f"Invalid plan format: {e}": the list comprehension stops at the first step
\* that PlanStep rejects, and e holds the errors of that step
InvalidPlanError(p) ==
    LET bad   == { i \in 1..Len(p) : ~PlanStepValid(p[i]) }
        first == CHOOSE i \in bad : \A j \in bad : i <= j
    IN  InvalidPlanMsg \o ValidationErrors(p[first])
SetupFailedMsg      == <<"LangChain agent setup failed">>
LcFailedMsg         == <<"LangChain execution failed">>

----------------------------------------------------------------------------
(* Helpers on the state.                                                   *)

\* the step the for loop is at, and its result (the last one appended)
CurStep   == plan[idx]
CurResult == result.steps[Len(result.steps)]

SetCurResult(sr) ==
    [result EXCEPT !.steps = [@ EXCEPT ![Len(result.steps)] = sr]]

\* the registry of brain/orchestrator/tools.py holds the five default tools
\* (_register_default_tools, lines 44-50); the module creates it at line 54,
\* above the definitions of the tool functions it registers (lines 57-319),
\* and the model takes the registry as loaded
Registry == ToolNames

\* _register_default_tools, lines 44-50: the function registered under each
\* default name
DefaultFunction(name) ==
    CASE name = "search"     -> "search_tool"
      [] name = "open"       -> "open_tool"
      [] name = "extract"    -> "extract_tool"
      [] name = "screenshot" -> "screenshot_tool"
      [] name = "download"   -> "download_tool"

\* no get_tool or list_tools call has been made
NoLookup == [kind |-> "none", name |-> "none", value |-> {}, at |-> 0]

\* no other thread is calling execute_plan
Alone == runs = <<>>

\* no result file has been written
NoFile == [state |-> "none", data |-> {}]

\* _basic_run is not in a polling pass
NoPoll == [pc |-> "sleep", current_time |-> 0, ready_job_ids |-> <<>>,
           pos |-> 0, passes |-> 0]

\* SessionManager.__init__, lines 98-99: no session and no browser
NoSessions ==
    /\ browser = FALSE
    /\ sessions = <<>>
    /\ contexts = <<>>
    /\ storage = {}

\* nothing is scheduled, no scheduler has polled and no session exists
NoScheduler ==
    /\ scheduled_jobs = <<>>
    /\ job_data = {}
    /\ queue = <<>>
    /\ poll = NoPoll
    /\ now = 0
    /\ jobs = <<>>
    /\ NoSessions

\* the registry as ToolRegistry() builds it, with nothing registered since
\* and nothing looked up
Loaded ==
    /\ functions = [n \in tool_registry |-> DefaultFunction(n)]
    /\ registered = <<>>
    /\ got = NoLookup
    /\ Alone
    /\ file = NoFile
    /\ NoScheduler

Notify(id, status, raised) ==
    notes' = Append(notes, [step_id |-> id, status |-> status, raised |-> raised])

\* the state of a thread about to call execute_plan
Start ==
    /\ pc = "idle"
    /\ result = NoResult
    /\ idx = 0
    /\ attempt = 0
    /\ step_context = <<>>
    /\ worker = "idle"
    /\ pending = NoMsg
    /\ calls = <<>>
    /\ notes = <<>>
    /\ cbRaised = FALSE
    /\ saved = <<>>
    /\ runnerCalls = 0
    /\ output = Null
    /\ escaped = "none"
    /\ runner = "none"

\* a fresh process with the default configuration: LANGCHAIN_ENABLED is
\* "false" (config.py, line 17), no runner is cached (executor.py, lines
\* 20-21) and the registry holds the default tools
NativeBackend ==
    /\ tool_registry = Registry
    /\ langchain_enabled = FALSE
    /\ langchain_available = FALSE
    /\ custom_runner = FALSE
    /\ langchain_runner = FALSE

Init ==
    /\ Start
    /\ plan \in Plans
    /\ outs = {"<html>"}
    /\ NativeBackend
    /\ Loaded

----------------------------------------------------------------------------
(* The facade: execute_plan of executor.py.                                *)

\* how constructing LangChainRunner() can end: __init__ raises ImportError
\* when LANGCHAIN_AVAILABLE is false (langchain_runner.py, lines 53-54);
\* otherwise it succeeds or an operation of lines 56-58 raises
ConstructOutcomes ==
    IF langchain_available THEN {"ok", "error"} ELSE {"ImportError"}

\* get_runner that lets the ImportError of the constructor through
get_runner_NoFallback(construct) ==
    IF langchain_enabled
    THEN IF ~langchain_runner
         THEN IF construct = "ok"
              THEN [runner |-> "langchain", custom |-> custom_runner,
                    langchain |-> TRUE, exc |-> "none"]
              ELSE [runner |-> "none", custom |-> custom_runner,
                    langchain |-> FALSE, exc |-> "construction"]
         ELSE [runner |-> "langchain", custom |-> custom_runner,
               langchain |-> TRUE, exc |-> "none"]
    ELSE [runner |-> "custom", custom |-> TRUE,
          langchain |-> langchain_runner, exc |-> "none"]

\* get_runner, executor.py lines 24-44: the runner returned, the two cached
\* instances afterwards, and the exception that leaves it
get_runner(construct) ==
    IF langchain_enabled
    THEN IF ~langchain_runner
         THEN CASE construct = "ok" ->
                     [runner |-> "langchain", custom |-> custom_runner,
                      langchain |-> TRUE, exc |-> "none"]
                [] construct = "ImportError" ->
                     [runner |-> "custom", custom |-> TRUE,
                      langchain |-> FALSE, exc |-> "none"]
                [] OTHER ->
                     [runner |-> "none", custom |-> custom_runner,
                      langchain |-> FALSE, exc |-> "construction"]
         ELSE [runner |-> "langchain", custom |-> custom_runner,
               langchain |-> TRUE, exc |-> "none"]
    ELSE [runner |-> "custom", custom |-> TRUE,
          langchain |-> langchain_runner, exc |-> "none"]

\* execute_plan, lines 86-95: get_runner, then the runner's execute_plan is
\* entered, which creates the ExecutionResult (custom_runner.py, lines 49-53;
\* langchain_runner.py, lines 103-107)
select_and_enter ==
    \E construct \in ConstructOutcomes :
        LET g == get_runner(construct)
        IN  /\ custom_runner' = g.custom
            /\ langchain_runner' = g.langchain
            /\ runner' = g.runner
            /\ IF g.exc # "none"
               THEN /\ pc' = "raised"
                    /\ escaped' = g.exc
                    /\ UNCHANGED <<result, runnerCalls>>
               ELSE /\ pc' = IF g.runner = "custom" THEN "validate" ELSE "lc_validate"
                    /\ result' = NewResult
                    /\ runnerCalls' = runnerCalls + 1
                    /\ UNCHANGED escaped

\* execute_plan without the check of lines 71-72
execute_plan_NoEmptyCheck ==
    /\ pc = "idle"
    /\ select_and_enter
    /\ UNCHANGED <<plan, idx, attempt, step_context, worker, pending, calls,
                   notes, cbRaised, saved, output, outs, backend>>

\* execute_plan, lines 71-95: an empty plan raises ValueError; otherwise the
\* runner is selected and entered
execute_plan ==
    /\ pc = "idle"
    /\ IF Len(plan) = 0
       THEN /\ pc' = "raised"
            /\ escaped' = "ValueError"
            /\ UNCHANGED <<result, runnerCalls, sel>>
       ELSE select_and_enter
    /\ UNCHANGED <<plan, idx, attempt, step_context, worker, pending, calls,
                   notes, cbRaised, saved, output, outs, backend>>

\* a facade that lets the failure of the save leave execute_plan
save_and_return_Raises ==
    /\ pc = "runner_returned"
    /\ \E save_results \in BOOLEAN, written \in BOOLEAN :
          /\ saved' = IF save_results
                      THEN Append(saved, IF written THEN "written" ELSE "failed")
                      ELSE saved
          /\ pc' = IF save_results /\ ~written THEN "raised" ELSE "returned"
    /\ UNCHANGED <<plan, result, idx, attempt, step_context, worker, pending,
                   calls, notes, cbRaised, runnerCalls, output, outs, escaped, backend, sel>>

\* execute_plan, lines 97-105: the runner has returned; the result is saved
\* when save_results is set, a failure to save is logged and swallowed
save_and_return ==
    /\ pc = "runner_returned"
    /\ \E save_results \in BOOLEAN, written \in BOOLEAN :
          saved' = IF save_results
                   THEN Append(saved, IF written THEN "written" ELSE "failed")
                   ELSE saved
    /\ pc' = "returned"
    /\ UNCHANGED <<plan, result, idx, attempt, step_context, worker, pending,
                   calls, notes, cbRaised, runnerCalls, output, outs, escaped, backend, sel>>

----------------------------------------------------------------------------
(* The native runner: CustomRunner.execute_plan.                           *)

\* a runner that starts the loop without validating the steps
validate_plan_Unchecked ==
    /\ pc = "validate"
    /\ pc' = "loop"
    /\ idx' = 1
    /\ step_context' = <<>>
    /\ UNCHANGED <<plan, result, attempt, worker, pending, calls, notes,
                   cbRaised, saved, runnerCalls, output, outs, escaped,
                   backend, sel>>

\* lines 55-65: validate and convert the plan steps
validate_plan ==
    /\ pc = "validate"
    /\ IF PlanValid(plan)
       THEN /\ pc' = "loop"
            /\ idx' = 1
            /\ step_context' = <<>>
            /\ UNCHANGED result
       ELSE /\ result' = ResultMarkFinished(result, "error", InvalidPlanError(plan))
            /\ pc' = "runner_returned"
            /\ UNCHANGED <<idx, step_context>>
    /\ UNCHANGED <<plan, attempt, worker, pending, calls, notes, cbRaised,
                   saved, runnerCalls, output, outs, escaped, backend, sel>>

\* lines 68-73: the for loop takes the next step and appends its result;
\* lines 134-138: after the last step the result is marked ok and returned
next_step ==
    /\ pc = "loop"
    /\ IF idx <= Len(plan)
       THEN /\ result' = [result EXCEPT
                            !.steps = Append(@, NewStepResult(plan[idx].step_id))]
            /\ pc' = "notify_running"
       ELSE /\ result' = ResultMarkFinished(result, "ok", NoMsg)
            /\ pc' = "runner_returned"
    /\ UNCHANGED <<plan, idx, attempt, step_context, worker, pending, calls,
                   notes, cbRaised, saved, runnerCalls, output, outs, escaped, backend, sel>>

\* lines 75-76: on_update(step_id, "running", None), outside every try block:
\* an exception of the callback leaves execute_plan
notify_running ==
    /\ pc = "notify_running"
    /\ \E raises \in BOOLEAN :
          /\ Notify(CurStep.step_id, "running", raises)
          /\ IF raises
             THEN /\ pc' = "raised"
                  /\ escaped' = "callback"
                  /\ cbRaised' = TRUE
                  /\ UNCHANGED attempt
             ELSE /\ pc' = "call_tool"
                  /\ attempt' = 1
                  /\ UNCHANGED <<escaped, cbRaised>>
    /\ UNCHANGED <<plan, result, idx, step_context, worker, pending, calls,
                   saved, runnerCalls, output, outs, backend, sel>>

----------------------------------------------------------------------------
(* One attempt: CustomRunner._execute_step.                                *)

\* values that start with "<"
Markup == {"<html>", "<body>"}

\* an injection that ignores the tool and the declared html argument
HtmlArg_AnyTool(step, context) ==
    IF \E k \in 1..Len(context) : context[k][2] \in Markup
    THEN LET first == CHOOSE k \in 1..Len(context) :
                         /\ context[k][2] \in Markup
                         /\ \A j \in 1..(k - 1) : context[j][2] \notin Markup
         IN  context[first][2]
    ELSE IF "html" \in step.args THEN "declared" ELSE Null

\* lines 159-168: the html argument given to the tool: the declared one, or for
\* an extract step without html the first context value that is markup
HtmlArg(step, context) ==
    IF "html" \in step.args THEN "declared"
    ELSE IF step.tool = "extract"
              /\ \E k \in 1..Len(context) : context[k][2] \in Markup
         THEN LET first == CHOOSE k \in 1..Len(context) :
                              /\ context[k][2] \in Markup
                              /\ \A j \in 1..(k - 1) : context[j][2] \notin Markup
              IN  context[first][2]
         ELSE Null

\* lines 153-172: look the tool up, build the arguments and submit the call to
\* the single worker of a fresh ThreadPoolExecutor
call_tool ==
    /\ pc = "call_tool"
    /\ IF CurStep.tool \in tool_registry
       THEN /\ calls' = Append(calls, [pos |-> idx, attempt |-> attempt,
                                       html |-> HtmlArg(CurStep, step_context),
                                       outcome |-> "running", value |-> Null])
            /\ worker' = "running"
            /\ pc' = "wait"
            /\ UNCHANGED pending
       ELSE /\ pending' = ToolMissingMsg
            /\ pc' = "except"
            /\ UNCHANGED <<calls, worker>>
    /\ UNCHANGED <<plan, result, idx, attempt, step_context, notes, cbRaised,
                   saved, runnerCalls, output, outs, escaped, backend, sel>>

SetOutcome(o) == calls' = [calls EXCEPT ![Len(calls)].outcome = o]

\* lines 175-176: the tool returns within step_timeout
tool_returns ==
    /\ pc = "wait" /\ worker = "running"
    /\ \E v \in outs :
          /\ output' = v
          /\ calls' = [calls EXCEPT ![Len(calls)].outcome = "returned",
                                    ![Len(calls)].value = v]
    /\ worker' = "idle"
    /\ pc' = "mark_ok"
    /\ UNCHANGED <<plan, result, idx, attempt, step_context, pending, notes,
                   cbRaised, saved, runnerCalls, outs, escaped, backend, sel>>

\* lines 181-183: the tool raises within step_timeout
tool_raises ==
    /\ pc = "wait" /\ worker = "running"
    /\ SetOutcome("raised")
    /\ pending' = ToolFailedMsg
    /\ worker' = "idle"
    /\ pc' = "except"
    /\ UNCHANGED <<plan, result, idx, attempt, step_context, notes, cbRaised,
                   saved, runnerCalls, output, outs, escaped, backend, sel>>

\* a timeout that leaves the with block without waiting for the worker
timeout_fires_NoWait ==
    /\ pc = "wait" /\ worker = "running"
    /\ SetOutcome("timeout")
    /\ pending' = TimeoutMsg
    /\ pc' = "except"
    /\ UNCHANGED <<plan, result, idx, attempt, step_context, worker, notes,
                   cbRaised, saved, runnerCalls, output, outs, escaped,
                   backend, sel>>

\* lines 178-179: future.result times out; the RuntimeError is raised inside
\* the with block, whose exit (line 171) is shutdown(wait=True): the thread
\* waits for the worker, which is still in the tool and may never leave it
timeout_fires ==
    /\ pc = "wait" /\ worker = "running"
    /\ SetOutcome("timeout")
    /\ pending' = TimeoutMsg
    /\ \E never_returns \in BOOLEAN :
          worker' = IF never_returns THEN "hung" ELSE "running"
    /\ pc' = "shutdown"
    /\ UNCHANGED <<plan, result, idx, attempt, step_context, notes, cbRaised,
                   saved, runnerCalls, output, outs, escaped, backend, sel>>

\* line 171, exit of the with block after a timeout: the abandoned call ends,
\* the worker is joined and the RuntimeError reaches execute_plan
shutdown_returns ==
    /\ pc = "shutdown" /\ worker = "running"
    /\ worker' = "idle"
    /\ pc' = "except"
    /\ UNCHANGED <<plan, result, idx, attempt, step_context, pending, calls,
                   notes, cbRaised, saved, runnerCalls, output, outs, escaped, backend, sel>>

----------------------------------------------------------------------------
(* The outcome of an attempt: CustomRunner.execute_plan, lines 82-132.     *)

\* line 83 (first attempt) or lines 104-105 (retry): the step is marked ok; the
\* retry block also stores the output in the context before it notifies
mark_ok ==
    /\ pc = "mark_ok"
    /\ result' = SetCurResult(StepMarkFinished(CurResult, "ok", output, NoMsg))
    /\ step_context' = IF attempt = 2
                       THEN DictSet(step_context, CurStep.step_id, output)
                       ELSE step_context
    /\ pc' = "notify_ok"
    /\ UNCHANGED <<plan, idx, attempt, worker, pending, calls, notes, cbRaised,
                   saved, runnerCalls, output, outs, escaped, backend, sel>>

\* lines 86-87 (inside the first try block) or 107-109 (inside the retry try
\* block): on_update(step_id, "ok", output); an exception of the callback is
\* caught by the except clause of the block it is in
notify_ok ==
    /\ pc = "notify_ok"
    /\ \E raises \in BOOLEAN :
          /\ Notify(CurStep.step_id, "ok", raises)
          /\ IF raises
             THEN /\ pending' = CallbackMsg
                  /\ cbRaised' = TRUE
                  /\ pc' = "except"
                  /\ UNCHANGED idx
             ELSE /\ UNCHANGED <<pending, cbRaised>>
                  /\ IF attempt = 1
                     THEN pc' = "store_output" /\ UNCHANGED idx
                     ELSE pc' = "loop" /\ idx' = idx + 1
    /\ UNCHANGED <<plan, result, attempt, step_context, worker, calls, saved,
                   runnerCalls, output, outs, escaped, backend, sel>>

\* line 90: step_context[f"step_{step.step_id}_output"] = output, and the loop
\* goes on
store_output ==
    /\ pc = "store_output"
    /\ step_context' = DictSet(step_context, CurStep.step_id, output)
    /\ idx' = idx + 1
    /\ pc' = "loop"
    /\ UNCHANGED <<plan, result, attempt, worker, pending, calls, notes,
                   cbRaised, saved, runnerCalls, output, outs, escaped, backend, sel>>

\* handle_failure that starts the retry with a new step result
handle_failure_NewEntry ==
    /\ pc = "except" /\ attempt = 1
    /\ IF CurStep.retry # 0 /\ CurResult.retry_count < CurStep.retry
       THEN /\ result' = [result EXCEPT
                            !.steps = Append(@, [NewStepResult(CurStep.step_id)
                                                   EXCEPT !.retry_count = 1])]
            /\ attempt' = 2
            /\ pc' = "call_tool"
       ELSE /\ pc' = "escalate"
            /\ UNCHANGED <<result, attempt>>
    /\ UNCHANGED <<plan, idx, step_context, worker, pending, calls, notes,
                   cbRaised, saved, runnerCalls, output, outs, escaped,
                   backend, sel>>

\* handle_failure that retries whatever the budget
handle_failure_AlwaysRetry ==
    /\ pc = "except" /\ attempt = 1
    /\ result' = SetCurResult([CurResult EXCEPT !.retry_count = @ + 1])
    /\ attempt' = 2
    /\ pc' = "call_tool"
    /\ UNCHANGED <<plan, idx, step_context, worker, pending, calls, notes,
                   cbRaised, saved, runnerCalls, output, outs, escaped, backend, sel>>

\* lines 92-99: the first attempt failed; one retry is made when the step has
\* a retry budget that retry_count has not reached
handle_failure ==
    /\ pc = "except" /\ attempt = 1
    /\ IF CurStep.retry # 0 /\ CurResult.retry_count < CurStep.retry
       THEN /\ result' = SetCurResult([CurResult EXCEPT !.retry_count = @ + 1])
            /\ attempt' = 2
            /\ pc' = "call_tool"
       ELSE /\ pc' = "escalate"
            /\ UNCHANGED <<result, attempt>>
    /\ UNCHANGED <<plan, idx, step_context, worker, pending, calls, notes,
                   cbRaised, saved, runnerCalls, output, outs, escaped, backend, sel>>

\* a retry block without its except clause: the exception of the retry leaves
\* execute_plan
handle_retry_failure_Escapes ==
    /\ pc = "except" /\ attempt = 2
    /\ pc' = "raised"
    /\ escaped' = "tool"
    /\ UNCHANGED <<plan, result, idx, attempt, step_context, worker, pending,
                   calls, notes, cbRaised, saved, runnerCalls, output, outs,
                   backend, sel>>

\* lines 111-113: the retry failed
handle_retry_failure ==
    /\ pc = "except" /\ attempt = 2
    /\ pending' = AfterRetriesMsg(pending)
    /\ pc' = "escalate"
    /\ UNCHANGED <<plan, result, idx, attempt, step_context, worker, calls,
                   notes, cbRaised, saved, runnerCalls, output, outs, escaped, backend, sel>>

\* escalate that marks the step error and goes on with the next step
escalate_Continue ==
    /\ pc = "escalate"
    /\ result' = SetCurResult(StepMarkFinished(CurResult, "error", Null, pending))
    /\ idx' = idx + 1
    /\ pc' = "loop"
    /\ UNCHANGED <<plan, attempt, step_context, worker, pending, calls,
                   notes, cbRaised, saved, runnerCalls, output, outs, escaped, backend, sel>>

\* escalate that ignores requires_human
escalate_NoHuman ==
    /\ pc = "escalate"
    /\ result' = SetCurResult(StepMarkFinished(CurResult, "error", Null, pending))
    /\ pc' = "notify_error"
    /\ UNCHANGED <<plan, idx, attempt, step_context, worker, pending, calls,
                   notes, cbRaised, saved, runnerCalls, output, outs, escaped, backend, sel>>

\* lines 115-118: a step that requires a human is marked paused, and so is the
\* result; line 125: any other step is marked error
escalate ==
    /\ pc = "escalate"
    /\ IF CurStep.requires_human
       THEN /\ result' = ResultMarkFinished(
                            SetCurResult(StepMarkFinished(CurResult, "paused", Null,
                                                          HumanMsg(pending))),
                            "paused", RequiresHumanMsg)
            /\ pc' = "notify_paused"
       ELSE /\ result' = SetCurResult(StepMarkFinished(CurResult, "error", Null,
                                                       pending))
            /\ pc' = "notify_error"
    /\ UNCHANGED <<plan, idx, attempt, step_context, worker, pending, calls,
                   notes, cbRaised, saved, runnerCalls, output, outs, escaped, backend, sel>>

\* lines 120-122: on_update(step_id, "paused", error_msg), then return result
notify_paused ==
    /\ pc = "notify_paused"
    /\ \E raises \in BOOLEAN :
          /\ Notify(CurStep.step_id, "paused", raises)
          /\ IF raises
             THEN pc' = "raised" /\ escaped' = "callback" /\ cbRaised' = TRUE
             ELSE pc' = "runner_returned" /\ UNCHANGED <<escaped, cbRaised>>
    /\ UNCHANGED <<plan, result, idx, attempt, step_context, worker, pending,
                   calls, saved, runnerCalls, output, outs, backend, sel>>

\* lines 127-128: on_update(step_id, "error", error_msg)
notify_error ==
    /\ pc = "notify_error"
    /\ \E raises \in BOOLEAN :
          /\ Notify(CurStep.step_id, "error", raises)
          /\ IF raises
             THEN pc' = "raised" /\ escaped' = "callback" /\ cbRaised' = TRUE
             ELSE pc' = "mark_result_error" /\ UNCHANGED <<escaped, cbRaised>>
    /\ UNCHANGED <<plan, result, idx, attempt, step_context, worker, pending,
                   calls, saved, runnerCalls, output, outs, backend, sel>>

\* lines 130-132: the result is marked error and returned
mark_result_error ==
    /\ pc = "mark_result_error"
    /\ result' = ResultMarkFinished(result, "error", StepFailedMsg(pending))
    /\ pc' = "runner_returned"
    /\ UNCHANGED <<plan, idx, attempt, step_context, worker, pending, calls,
                   notes, cbRaised, saved, runnerCalls, output, outs, escaped, backend, sel>>

----------------------------------------------------------------------------
(* The agent runner: LangChainRunner.execute_plan.                         *)

\* langchain_runner.py lines 109-116: validate and convert the plan steps
lc_validate ==
    /\ pc = "lc_validate"
    /\ IF PlanValid(plan)
       THEN /\ pc' = "lc_setup"
            /\ UNCHANGED result
       ELSE /\ result' = ResultMarkFinished(result, "error", InvalidPlanError(plan))
            /\ pc' = "runner_returned"
    /\ UNCHANGED <<plan, idx, attempt, step_context, worker, pending, calls,
                   notes, cbRaised, saved, runnerCalls, output, outs, escaped,
                   backend, sel>>

\* lines 135-153: the agent and its executor are created; lines 203-207: an
\* exception of the setup marks the result error
lc_setup ==
    /\ pc = "lc_setup"
    /\ \E created \in BOOLEAN :
          IF created
          THEN /\ pc' = "lc_loop"
               /\ idx' = 1
               /\ UNCHANGED result
          ELSE /\ result' = ResultMarkFinished(result, "error", SetupFailedMsg)
               /\ pc' = "runner_returned"
               /\ UNCHANGED idx
    /\ UNCHANGED <<plan, attempt, step_context, worker, pending, calls, notes,
                   cbRaised, saved, runnerCalls, output, outs, escaped,
                   backend, sel>>

\* lines 155-160: the for loop takes the next step and appends its result;
\* lines 197-201: after the last step the result is marked ok and returned
lc_next_step ==
    /\ pc = "lc_loop"
    /\ IF idx <= Len(plan)
       THEN /\ result' = [result EXCEPT
                            !.steps = Append(@, NewStepResult(plan[idx].step_id))]
            /\ pc' = "lc_notify_running"
       ELSE /\ result' = ResultMarkFinished(result, "ok", NoMsg)
            /\ pc' = "runner_returned"
    /\ UNCHANGED <<plan, idx, attempt, step_context, worker, pending, calls,
                   notes, cbRaised, saved, runnerCalls, output, outs, escaped,
                   backend, sel>>

\* lines 162-163: on_update(step_id, "running", None), inside the outer try
\* only: an exception of the callback is caught at lines 203-207
lc_notify_running ==
    /\ pc = "lc_notify_running"
    /\ \E raises \in BOOLEAN :
          /\ Notify(CurStep.step_id, "running", raises)
          /\ IF raises
             THEN /\ result' = ResultMarkFinished(result, "error", SetupFailedMsg)
                  /\ pc' = "runner_returned"
                  /\ cbRaised' = TRUE
             ELSE /\ pc' = "lc_invoke"
                  /\ UNCHANGED <<result, cbRaised>>
    /\ UNCHANGED <<plan, idx, attempt, step_context, worker, pending, calls,
                   saved, runnerCalls, output, outs, escaped, backend, sel>>

\* lines 165-177: the agent executor is invoked for the step; its output
\* marks the step ok, its exception is caught at line 184
lc_invoke ==
    /\ pc = "lc_invoke"
    /\ \/ \E v \in outs :
            /\ calls' = Append(calls, [pos |-> idx, attempt |-> 1, html |-> Null,
                                       outcome |-> "returned", value |-> v])
            /\ output' = v
            /\ result' = SetCurResult(StepMarkFinished(CurResult, "ok", v, NoMsg))
            /\ pc' = "lc_notify_ok"
            /\ UNCHANGED pending
       \/ /\ calls' = Append(calls, [pos |-> idx, attempt |-> 1, html |-> Null,
                                     outcome |-> "raised", value |-> Null])
          /\ pending' = LcFailedMsg
          /\ pc' = "lc_fail"
          /\ UNCHANGED <<output, result>>
    /\ UNCHANGED <<plan, idx, attempt, step_context, worker, notes, cbRaised,
                   saved, runnerCalls, outs, escaped, backend, sel>>

\* lines 181-182: on_update(step_id, "ok", output), inside the try block of
\* the step: an exception of the callback is caught at line 184
lc_notify_ok ==
    /\ pc = "lc_notify_ok"
    /\ \E raises \in BOOLEAN :
          /\ Notify(CurStep.step_id, "ok", raises)
          /\ IF raises
             THEN /\ pending' = LcFailedMsg
                  /\ cbRaised' = TRUE
                  /\ pc' = "lc_fail"
                  /\ UNCHANGED idx
             ELSE /\ idx' = idx + 1
                  /\ pc' = "lc_loop"
                  /\ UNCHANGED <<pending, cbRaised>>
    /\ UNCHANGED <<plan, result, attempt, step_context, worker, calls, saved,
                   runnerCalls, output, outs, escaped, backend, sel>>

\* lines 184-195: the step is marked paused or error, and so is the result,
\* which is returned; no callback fires and nothing is retried
lc_fail ==
    /\ pc = "lc_fail"
    /\ IF CurStep.requires_human
       THEN result' = ResultMarkFinished(
                         SetCurResult(StepMarkFinished(CurResult, "paused", Null,
                                                       pending)),
                         "paused", RequiresHumanMsg)
       ELSE result' = ResultMarkFinished(
                         SetCurResult(StepMarkFinished(CurResult, "error", Null,
                                                       pending)),
                         "error", StepFailedMsg(pending))
    /\ pc' = "runner_returned"
    /\ UNCHANGED <<plan, idx, attempt, step_context, worker, pending, calls,
                   notes, cbRaised, saved, runnerCalls, output, outs, escaped,
                   backend, sel>>

----------------------------------------------------------------------------

Next ==
    \/ execute_plan
    \/ save_and_return
    \/ validate_plan
    \/ next_step
    \/ notify_running
    \/ call_tool
    \/ tool_returns
    \/ tool_raises
    \/ timeout_fires
    \/ shutdown_returns
    \/ mark_ok
    \/ notify_ok
    \/ store_output
    \/ handle_failure
    \/ handle_retry_failure
    \/ escalate
    \/ notify_paused
    \/ notify_error
    \/ mark_result_error

Spec == Init /\ [][Next]_vars

\* the step ids of the raw plan are 1..len(steps) in order
SequentialIds(p) == \A i \in 1..Len(p) : p[i].step_id = i

\* the plans of the runs under either backend: sequential step ids, at most
\* one retry
BackendPlans ==
    { p \in Plans : SequentialIds(p) /\ \A i \in 1..Len(p) : p[i].retry <= 1 }

\* a process under any configuration: LANGCHAIN_ENABLED set or not, langchain
\* importable or not, and the runners an earlier call may have cached
InitBackend ==
    /\ Start
    /\ plan \in BackendPlans
    /\ outs = {"<html>"}
    /\ tool_registry = Registry
    /\ langchain_enabled \in BOOLEAN
    /\ langchain_available \in BOOLEAN
    /\ custom_runner \in BOOLEAN
    /\ langchain_runner \in IF langchain_available THEN BOOLEAN ELSE {FALSE}
    /\ Loaded

NextBackend ==
    \/ Next
    \/ lc_validate
    \/ lc_setup
    \/ lc_next_step
    \/ lc_notify_running
    \/ lc_invoke
    \/ lc_notify_ok
    \/ lc_fail

SpecBackend == InitBackend /\ [][NextBackend]_vars

\* runs against a registry that may lack a tool the plan names: the registry
\* is looked up by name at each attempt (tools.py, lines 30-34)
InitLookup ==
    /\ Start
    /\ plan \in BackendPlans
    /\ outs = {"<html>"}
    /\ tool_registry \in {Registry, Registry \ {"open"}}
    /\ langchain_enabled = FALSE
    /\ langchain_available = FALSE
    /\ custom_runner = FALSE
    /\ langchain_runner = FALSE
    /\ Loaded

SpecLookup == InitLookup /\ [][Next]_vars

\* the argument names a step may carry
ArgNames == {"query", "url", "selector", "filename", "extra"}

\* one-step plans of every tool with every set of arguments
ArgPlans ==
    { <<WithId(b, 1)>> :
        b \in [tool : ToolNames, args : SUBSET ArgNames, confidence : {5},
               retry : {0, 1}, requires_human : BOOLEAN] }

InitArgs ==
    /\ Start
    /\ plan \in ArgPlans
    /\ outs = {"<html>"}
    /\ NativeBackend
    /\ Loaded

SpecArgs == InitArgs /\ [][Next]_vars

\* runs that pass data between steps: the tools return markup or plain text
InitCtx ==
    /\ Start
    /\ plan \in CtxPlans
    /\ outs = {"<html>", "<body>", "text"}
    /\ NativeBackend
    /\ Loaded

SpecCtx == InitCtx /\ [][Next]_vars

----------------------------------------------------------------------------
(* The registry: ToolRegistry of brain/orchestrator/tools.py.              *)

\* the names and functions a caller registers
RegisterNames == ToolNames \cup {"custom_tool"}
RegisterFuncs == {"f", "g"}

\* what the registry operations leave alone: the state of a plan run
runState == <<plan, pc, result, idx, attempt, step_context, worker, pending,
              calls, notes, cbRaised, saved, runnerCalls, output, outs,
              escaped, langchain_enabled, langchain_available, sel, runs,
              file, services>>

\* d[name] = func on a dict kept as a function
Put(d, name, func) ==
    [n \in DOMAIN d \cup {name} |-> IF n = name THEN func ELSE d[n]]

\* a register that keeps the function a name already has
register_KeepFirst ==
    /\ Len(registered) < MaxRegisters
    /\ \E name \in RegisterNames, func \in RegisterFuncs :
          /\ functions' = IF name \in DOMAIN functions
                          THEN functions ELSE Put(functions, name, func)
          /\ tool_registry' = tool_registry \cup {name}
          /\ registered' = Append(registered, [name |-> name, func |-> func])
    /\ UNCHANGED <<got, runState>>

\* ToolRegistry.register, lines 22-28: self._tools[name] = {...}
register ==
    /\ Len(registered) < MaxRegisters
    /\ \E name \in RegisterNames, func \in RegisterFuncs :
          /\ functions' = Put(functions, name, func)
          /\ tool_registry' = tool_registry \cup {name}
          /\ registered' = Append(registered, [name |-> name, func |-> func])
    /\ UNCHANGED <<got, runState>>

\* ToolRegistry.get_tool, lines 30-34: the function under the name, or
\* ValueError when the name is not in _tools
get_tool ==
    /\ \E name \in RegisterNames \cup {"nonexistent_tool"} :
          got' = IF name \in DOMAIN functions
                 THEN [kind |-> "function", name |-> name,
                       value |-> {functions[name]}, at |-> Len(registered)]
                 ELSE [kind |-> "ValueError", name |-> name,
                       value |-> {}, at |-> Len(registered)]
    /\ UNCHANGED <<tool_registry, functions, registered, runState>>

\* ToolRegistry.list_tools, lines 36-38: list(self._tools.keys())
list_tools ==
    /\ got' = [kind |-> "names", name |-> "none", value |-> DOMAIN functions,
               at |-> Len(registered)]
    /\ UNCHANGED <<tool_registry, functions, registered, runState>>

NextRegistry ==
    \/ register
    \/ get_tool
    \/ list_tools

\* a registry on which callers register and look up tools; no plan is run
InitRegistry ==
    /\ Start
    /\ plan = <<>>
    /\ outs = {"<html>"}
    /\ NativeBackend
    /\ Loaded

SpecRegistry == InitRegistry /\ [][NextRegistry]_vars

----------------------------------------------------------------------------
(* The queries of a result: ExecutionResult.get_final_output and           *)
(* ExecutionResult.get_step_outputs.                                       *)

RECURSIVE StepOutputsOf(_, _)
\* schema.py lines 85-91: the dict comprehension over the first n steps, as a
\* dict of <<step_id, output>> pairs: a later step replaces the value of a key
StepOutputsOf(steps, n) ==
    IF n = 0 THEN <<>>
    ELSE LET before == StepOutputsOf(steps, n - 1)
         IN  IF steps[n].status = "ok" /\ steps[n].output # Null
             THEN DictSet(before, steps[n].step_id, steps[n].output)
             ELSE before

get_step_outputs(r) ==
    LET d == StepOutputsOf(r.steps, Len(r.steps))
    IN  { d[k] : k \in 1..Len(d) }

\* the output of the last step, successful or not
get_final_output_LastStep(r) ==
    IF Len(r.steps) > 0 THEN r.steps[Len(r.steps)].output ELSE Null

\* schema.py lines 93-98: the output of the last step with status ok
get_final_output(r) ==
    LET IsOk(sr) == sr.status = "ok"
        successful_steps == SelectSeq(r.steps, IsOk)
    IN  IF Len(successful_steps) > 0
        THEN successful_steps[Len(successful_steps)].output
        ELSE Null

\* the step results a result may hold
StepResults ==
    [step_id : 1..2, status : {"ok", "error", "paused", "running"},
     output : {Null, "<html>", "text"}, error_message : {NoMsg},
     finished : {TRUE}, retry_count : {0}]

\* the results queried: any sequence of up to MaxSteps step results
Results ==
    { [exists |-> TRUE, status |-> "ok", steps |-> st, finished |-> TRUE,
       error_message |-> NoMsg] :
        st \in UNION { [1..n -> StepResults] : n \in 0..MaxSteps } }

call_get_final_output ==
    /\ got' = [kind |-> "final_output", name |-> "none",
               value |-> {get_final_output(result)}, at |-> 0]
    /\ UNCHANGED <<tool_registry, functions, registered, runState>>

call_get_step_outputs ==
    /\ got' = [kind |-> "step_outputs", name |-> "none",
               value |-> get_step_outputs(result), at |-> 0]
    /\ UNCHANGED <<tool_registry, functions, registered, runState>>

NextResult ==
    \/ call_get_final_output
    \/ call_get_step_outputs

\* a caller holds some result and queries it
InitResult ==
    /\ pc = "returned"
    /\ result \in Results
    /\ plan = <<>>
    /\ idx = 0
    /\ attempt = 0
    /\ step_context = <<>>
    /\ worker = "idle"
    /\ pending = NoMsg
    /\ calls = <<>>
    /\ notes = <<>>
    /\ cbRaised = FALSE
    /\ saved = <<>>
    /\ runnerCalls = 1
    /\ output = Null
    /\ escaped = "none"
    /\ runner = "custom"
    /\ outs = {"<html>"}
    /\ tool_registry = Registry
    /\ langchain_enabled = FALSE
    /\ langchain_available = FALSE
    /\ custom_runner = TRUE
    /\ langchain_runner = FALSE
    /\ Loaded

SpecResult == InitResult /\ [][NextResult]_vars

----------------------------------------------------------------------------
(* Vocabulary of the properties.                                           *)

Steps == result.steps

Failed(sr) == sr.status \in {"error", "paused"}

\* the tool invocations made for the step at position i, and those that failed
CallsOf(i) == { k \in 1..Len(calls) : calls[k].pos = i }
FailsOf(i) == { k \in CallsOf(i) : calls[k].outcome \in {"raised", "timeout"} }

\* the outcome of the last invocation made for the step at position i
LastOutcome(i) ==
    LET last == CHOOSE k \in CallsOf(i) : \A j \in CallsOf(i) : j <= k
    IN  calls[last].outcome

Contains(msg, part) == \E k \in 1..Len(msg) : msg[k] = part

StepIds == [i \in 1..Len(Steps) |-> Steps[i].step_id]

\* the runner has handed its result back
Returned == pc \in {"runner_returned", "returned"}

\* the result says the plan was rejected by validation
Rejected ==
    /\ Len(result.error_message) >= 1
    /\ result.error_message[1] = InvalidPlanMsg[1]

----------------------------------------------------------------------------
(* Properties.                                                             *)

\* C1 (fail-stop): a failed (error or paused) step result is always the last
\* element of result.steps, and from a state in which some step result is
\* failed no step result is appended and no tool call is started.
C1_FailStop ==
    /\ [](\A i \in 1..Len(Steps) : Failed(Steps[i]) => i = Len(Steps))
    /\ [][ (\E i \in 1..Len(Steps) : Failed(Steps[i]))
           => /\ Len(result'.steps) = Len(result.steps)
              /\ calls' = calls ]_vars

\* a two-step plan whose first step failed has been returned with one result
C1_Witness ==
    /\ pc = "returned" /\ Len(plan) = 2
    /\ Len(Steps) = 1 /\ Failed(Steps[1])

\* C2 (sequential invariant): at every moment of a run the step_id sequence
\* of result.steps is exactly 1..k for some k <= N, N the number of plan steps.
C2_SequentialSteps ==
    \E k \in 0..Len(plan) : StepIds = [i \in 1..k |-> i]

\* C3: a raw plan whose step ids are not exactly 1..len(steps) in order is
\* rejected before execution: no tool is invoked and no step result is created.
C3_BadIdsRejected ==
    ~SequentialIds(plan) => calls = <<>> /\ Steps = <<>>

\* C4 (retry bound, success side): with a callback that does not raise, a step
\* with retry = r whose tool has failed exactly r times is not given up (the
\* next invocation is the one that succeeds), and a step that is ok after
\* exactly r failed invocations has retry_count = r.
C4_RetryThenSuccess ==
    ~cbRaised =>
        \A i \in 1..Len(Steps) :
            LET r == plan[i].retry
                f == Cardinality(FailsOf(i))
            IN  /\ Failed(Steps[i]) => f # r
                /\ (Steps[i].status = "ok" /\ f = r) => Steps[i].retry_count = r

\* C5 (retry bound, failure side): a step with retry = r - 1 is never invoked
\* more than r times, and when the run of a plan has returned and every
\* invocation made for a step with requires_human = false failed, that step
\* has status error and so has the result.
C5_RetryExhausted ==
    \A i \in 1..Len(Steps) :
        /\ Cardinality(CallsOf(i)) <= plan[i].retry + 1
        /\ ( /\ Returned
             /\ ~plan[i].requires_human
             /\ CallsOf(i) # {}
             /\ FailsOf(i) = CallsOf(i) )
           => Steps[i].status = "error" /\ result.status = "error"

\* a step with retry 1 failed twice and the run returned
C5_Witness ==
    /\ pc = "returned" /\ Len(Steps) >= 1
    /\ plan[1].retry = 1 /\ ~plan[1].requires_human
    /\ Cardinality(FailsOf(1)) = 2
    /\ Steps[1].status = "error"

\* C6 (termination): the run never stops anywhere but at the return of
\* execute_plan (normally or by an exception): in every other state some step
\* of the executor is possible, whatever the tool does.
C6_NeverBlocked ==
    pc \in {"returned", "raised"} \/ ENABLED Next

\* C7: a timeout is handled like a tool failure: for a callback that does not
\* raise, every finished step has retry_count equal to the number of failed
\* invocations that were followed by another one, whether they timed out or
\* raised; a failed step is paused or error by requires_human alone; and its
\* message names a timeout exactly when the last invocation timed out, a tool
\* failure exactly when it raised.
C7_TimeoutLikeToolError ==
    ~cbRaised =>
        \A i \in 1..Len(Steps) :
            LET sr == Steps[i]
                f  == Cardinality(FailsOf(i))
            IN  /\ sr.status = "ok" => sr.retry_count = f
                /\ Failed(sr) =>
                      /\ sr.retry_count = f - 1
                      /\ sr.status = IF plan[i].requires_human THEN "paused" ELSE "error"
                      /\ Contains(sr.error_message, TimeoutMsg[1])
                            <=> LastOutcome(i) = "timeout"
                      /\ Contains(sr.error_message, ToolFailedMsg[1])
                            <=> LastOutcome(i) = "raised"

\* a step failed after a timed-out first attempt and a timed-out retry
C7_Witness ==
    /\ pc = "returned" /\ Len(Steps) = 1 /\ ~cbRaised
    /\ Failed(Steps[1]) /\ Steps[1].retry_count = 1
    /\ \A k \in CallsOf(1) : calls[k].outcome = "timeout"
    /\ Contains(Steps[1].error_message, TimeoutMsg[1])

\* C8: a failed step is paused when requires_human is set and error otherwise,
\* and carries an error_message; when the run has returned with a failed step
\* the result has the status of that step; the one-step plan {tool fails,
\* retry 0, requires_human} returns paused with one step result, paused, whose
\* message holds the failure detail.
C8_PausedOrError ==
    /\ \A i \in 1..Len(Steps) :
          Failed(Steps[i]) =>
             /\ Steps[i].status = IF plan[i].requires_human THEN "paused" ELSE "error"
             /\ Steps[i].error_message # NoMsg
             /\ Returned => result.status = Steps[i].status
    /\ ( /\ Returned /\ Len(plan) = 1
         /\ plan[1].retry = 0 /\ plan[1].requires_human
         /\ FailsOf(1) # {} )
       => /\ result.status = "paused"
          /\ Len(Steps) = 1
          /\ Steps[1].status = "paused"
          /\ \/ Contains(Steps[1].error_message, ToolFailedMsg[1])
             \/ Contains(Steps[1].error_message, TimeoutMsg[1])

\* the human-pause scenario has run
C8_Witness ==
    /\ pc = "returned" /\ Len(plan) = 1
    /\ plan[1].retry = 0 /\ plan[1].requires_human
    /\ calls # <<>> /\ calls[1].outcome = "raised"
    /\ result.status = "paused"

\* C9: execute_plan on an empty plan raises ValueError at once: no runner is
\* entered, no ExecutionResult exists, no callback fires, nothing is saved.
C9_EmptyPlanRejected ==
    (Len(plan) = 0 /\ pc # "idle") =>
        /\ pc = "raised" /\ escaped = "ValueError"
        /\ ~result.exists
        /\ runnerCalls = 0
        /\ notes = <<>> /\ calls = <<>>
        /\ saved = <<>>

\* execute_plan has been called with an empty plan
C9_Witness == Len(plan) = 0 /\ pc = "raised"

\* C10: a returned ExecutionResult has status ok, error or paused, has
\* finished_at set, and has an error_message when it is error or paused.
C10_TerminalResult ==
    Returned =>
        /\ result.status \in {"ok", "error", "paused"}
        /\ result.finished
        /\ result.status \in {"error", "paused"} => result.error_message # NoMsg

\* a run that reached its second step has returned error, with a message
C10_Witness ==
    /\ pc = "returned" /\ result.status = "error"
    /\ Len(Steps) = 2 /\ result.error_message # NoMsg

\* C11: a returned result is ok exactly when result.steps has one entry per
\* plan step and every entry is ok; and when the plan is valid, no callback
\* raised and every tool call returned, the result is ok with one ok step
\* result per plan step, each holding the value its tool call returned.
C11_OkIffAllOk ==
    Returned =>
        /\ result.status = "ok"
             <=> /\ Len(Steps) = Len(plan)
                 /\ \A i \in 1..Len(Steps) : Steps[i].status = "ok"
        /\ ( /\ PlanValid(plan) /\ ~cbRaised
             /\ \A k \in 1..Len(calls) : calls[k].outcome = "returned" )
           => /\ result.status = "ok"
              /\ Len(Steps) = Len(plan)
              /\ \A i \in 1..Len(Steps) :
                    /\ Steps[i].status = "ok"
                    /\ \E k \in CallsOf(i) : Steps[i].output = calls[k].value

\* a two-step plan has run with both tool calls returning
C11_Witness ==
    /\ pc = "returned" /\ result.status = "ok"
    /\ Len(plan) = 2 /\ Len(calls) = 2
    /\ Steps[2].output = calls[2].value

\* the earlier steps of position i that are ok with an output starting with "<"
MarkupBefore(i) ==
    { j \in 1..(i - 1) : Steps[j].status = "ok" /\ Steps[j].output \in Markup }

\* the calls made for an extract step that declares no html argument
ExtractCalls ==
    { k \in 1..Len(calls) : /\ plan[calls[k].pos].tool = "extract"
                            /\ "html" \notin plan[calls[k].pos].args }

\* C12 (context propagation): when an earlier step is ok with an output that
\* starts with "<", an extract step without html argument is called with html
\* equal to such an earlier output; in a two-step plan, with the output of
\* step 1.
C12_ContextPropagation ==
    \A k \in ExtractCalls :
        LET i == calls[k].pos
        IN  /\ MarkupBefore(i) # {}
                => \E j \in MarkupBefore(i) : calls[k].html = Steps[j].output
            /\ (Len(plan) = 2 /\ i = 2 /\ MarkupBefore(2) = {1})
                => calls[k].html = Steps[1].output

\* C13: in a plan with sequential step ids, an extract step without html
\* argument is called with the output of the most recent earlier step that is
\* ok with an output starting with "<".
C13_MostRecentMarkup ==
    \A k \in ExtractCalls :
        LET i == calls[k].pos
        IN  (SequentialIds(plan) /\ MarkupBefore(i) # {})
               => \E j \in MarkupBefore(i) :
                     /\ \A m \in MarkupBefore(i) : m <= j
                     /\ calls[k].html = Steps[j].output

\* C14: when a step of the plan fails validation, also when it is the last
\* step and the earlier ones are valid, no tool is invoked, no callback fires,
\* no step result exists, the runner is entered at most once, and the result
\* the caller gets has status error with the invalid-plan message.
C14_InvalidPlanRejected ==
    ~PlanValid(plan) =>
        /\ calls = <<>>
        /\ notes = <<>>
        /\ Steps = <<>>
        /\ runnerCalls <= 1
        /\ pc = "raised" => escaped = "construction"
        /\ Returned => /\ result.status = "error"
                       /\ result.finished
                       /\ result.error_message = InvalidPlanError(plan)

\* a two-step plan whose first step is valid and whose last step is not has
\* been rejected by the native runner
C14_Witness ==
    /\ pc = "returned"
    /\ runner = "custom"
    /\ Len(plan) = 2
    /\ PlanStepValid(plan[1])
    /\ ~PlanStepValid(plan[2])
    /\ Rejected

\* C15: execute_plan on a one-step plan whose step names a tool that does not
\* exist does not raise and returns a result with status error holding exactly
\* one step result, which has status error and an error message.
C15_UnknownToolStepResult ==
    (Len(plan) = 1 /\ plan[1].tool \notin ToolNames) =>
        /\ pc # "raised"
        /\ pc = "returned" =>
              /\ result.status = "error"
              /\ Len(Steps) = 1
              /\ Steps[1].status = "error"
              /\ Steps[1].error_message # NoMsg

\* a step that is well formed apart from its confidence
ValidButConfidence(s) ==
    /\ validate_tool_args(s)
    /\ s.retry >= 0

\* C17: validation never rejects a step because of its confidence: a plan
\* whose steps are well formed apart from their confidence is not rejected.
C17_ConfidenceNeverRejects ==
    (Returned /\ \A i \in 1..Len(plan) : ValidButConfidence(plan[i])) =>
        ~Rejected

\* C16: a step whose tool the registry does not hold fails without retry:
\* its retry_count stays 0 and no second attempt is made, whatever step.retry.
C16_LookupFailureNotRetried ==
    \A i \in 1..Len(Steps) :
        plan[i].tool \notin tool_registry =>
            /\ Steps[i].retry_count = 0
            /\ idx = i => attempt <= 1

\* C18: a step with a known tool is accepted if and only if every required
\* argument of the tool is in args (search: query; open: url; extract:
\* selector; screenshot: url; download: url and filename); a rejection names a
\* missing argument and the tool; extra arguments never cause rejection.
C18_RequiredArgs ==
    pc \notin {"idle", "validate"} =>
        LET s   == plan[1]
            req == CASE s.tool = "search"     -> {"query"}
                     [] s.tool = "open"       -> {"url"}
                     [] s.tool = "extract"    -> {"selector"}
                     [] s.tool = "screenshot" -> {"url"}
                     [] s.tool = "download"   -> {"url", "filename"}
        IN  /\ Rejected <=> ~(req \subseteq s.args)
            /\ Rejected =>
                  /\ \E a \in req \ s.args : Contains(result.error_message, a)
                  /\ Contains(result.error_message, s.tool)

\* a download step with url and an extra argument, but no filename, has been
\* rejected with a message naming filename
C18_Witness ==
    /\ pc = "returned"
    /\ plan[1].tool = "download"
    /\ plan[1].args = {"url", "extra"}
    /\ Rejected
    /\ Contains(result.error_message, "filename")

\* C20 (runner selection): once execute_plan has passed get_runner, the native
\* runner was selected whenever the agent backend is not enabled and whenever
\* it is enabled but langchain is unavailable (the ImportError of the
\* constructor does not leave get_runner); the agent runner was selected only
\* when the backend is enabled and its instance was constructed.
C20_RunnerSelection ==
    /\ (pc # "idle" /\ Len(plan) > 0
          /\ (~langchain_enabled \/ ~langchain_available))
         => /\ runner = "custom"
            /\ custom_runner
            /\ escaped # "construction"
    /\ runner = "langchain"
         => /\ langchain_enabled
            /\ langchain_available
            /\ langchain_runner
    /\ (runner # "none" /\ langchain_enabled /\ langchain_available)
         => runner = "langchain"

\* a plan has run on the native runner although the backend is enabled,
\* because langchain is unavailable
C20_Witness ==
    /\ pc = "returned"
    /\ langchain_enabled
    /\ ~langchain_available
    /\ runner = "custom"
    /\ Len(calls) > 0

\* C21: whatever failure the construction of the agent runner raises, it does
\* not leave get_runner or execute_plan, and the plan is run by the native
\* runner: with the backend enabled and no agent runner constructed, the
\* native runner was selected and no construction failure escaped.
C21_ConstructionTotal ==
    /\ escaped # "construction"
    /\ (pc # "idle" /\ Len(plan) > 0 /\ langchain_enabled /\ ~langchain_runner)
          => runner = "custom"

\* the states of the agent runner
AgentPcs ==
    {"lc_validate", "lc_setup", "lc_loop", "lc_notify_running", "lc_invoke",
     "lc_notify_ok", "lc_fail"}

\* C22 (fallback equivalence): with the agent backend requested and its
\* dependency absent, execute_plan enters the native runner in the state in
\* which it enters it when the native backend is selected (a fresh running
\* result, nothing executed, the plan about to be validated), and the run
\* never takes a step of the agent runner afterwards.
C22_FallbackEquivalence ==
    [][ (langchain_enabled /\ ~langchain_available) =>
          /\ (pc = "idle" /\ Len(plan) > 0) =>
                /\ pc' = "validate"
                /\ runner' = "custom"
                /\ custom_runner'
                /\ result' = NewResult
                /\ escaped' = "none"
                /\ UNCHANGED <<plan, idx, attempt, step_context, worker,
                               pending, calls, notes, cbRaised, outs,
                               tool_registry>>
          /\ pc' \notin AgentPcs ]_vars

\* a two-step plan has run to ok on the native runner, with its four
\* callbacks, although the agent backend was requested
C22_Witness ==
    /\ pc = "returned"
    /\ langchain_enabled /\ ~langchain_available
    /\ Len(plan) = 2
    /\ result.status = "ok"
    /\ Len(notes) = 4

\* what a caller of the native runner observes of a failed step: every
\* attempt of the retry budget was made and the terminal status was reported
FailedStepContract(i) ==
    /\ Cardinality(CallsOf(i)) = plan[i].retry + 1
    /\ \E n \in 1..Len(notes) : /\ notes[n].step_id = Steps[i].step_id
                                /\ notes[n].status = Steps[i].status

\* C23: the agent runner and the native runner are interchangeable: under
\* either, a failed step of a returned run (no callback having raised) was
\* attempted retry + 1 times and its terminal status was reported by a
\* callback.
C23_RunnersInterchangeable ==
    (Returned /\ ~cbRaised) =>
        \A i \in 1..Len(Steps) : Failed(Steps[i]) => FailedStepContract(i)

\* the same, for the native runner alone
C23_NativeContract ==
    runner = "custom" => C23_RunnersInterchangeable

\* C24 (callback protocol of the native runner): the callbacks are, step
\* result by step result in order, one with status running and then one with
\* the terminal status of the step; no callback exists beyond the step
\* results appended, and a returned run has both callbacks of every step.
C24_CallbackProtocol ==
    /\ Len(notes) <= 2 * Len(Steps)
    /\ \A n \in 1..Len(notes) :
          LET i == (n + 1) \div 2
          IN  /\ i <= Len(Steps) => notes[n].step_id = Steps[i].step_id
              /\ IF n % 2 = 1
                 THEN notes[n].status = "running"
                 ELSE notes[n].status \in {"ok", "error", "paused"}
    /\ Returned =>
          /\ Len(notes) = 2 * Len(Steps)
          /\ \A i \in 1..Len(Steps) : notes[2 * i].status = Steps[i].status

\* the protocol, for the runs in which no callback has raised
C24_ProtocolWithoutRaise ==
    ~cbRaised => C24_CallbackProtocol

\* C25: no exception of a tool invocation, first attempt or retry, leaves
\* execute_plan: the only exceptions that leave it are the ValueError of an
\* empty plan and an exception of the caller's callback; once the run is
\* over, a step whose last tool call failed has a terminal failed result with
\* an error message; and a run in which no callback raised returns.
C25_ToolFailureCaptured ==
    /\ escaped \in {"none", "ValueError", "callback"}
    /\ escaped = "callback" => cbRaised
    /\ (pc = "raised" /\ ~cbRaised) => Len(plan) = 0
    /\ pc \in {"raised", "runner_returned", "returned"} =>
          \A i \in 1..Len(Steps) :
             (CallsOf(i) # {} /\ LastOutcome(i) = "raised") =>
                 /\ Failed(Steps[i])
                 /\ Steps[i].finished
                 /\ Steps[i].error_message # NoMsg

\* a step whose tool raised at the first attempt and at the retry has been
\* returned as an error step
C25_Witness ==
    /\ pc = "returned"
    /\ ~cbRaised
    /\ Len(calls) = 2
    /\ \A k \in 1..2 : calls[k].pos = 1 /\ calls[k].outcome = "raised"
    /\ Steps[1].status = "error"
    /\ Steps[1].error_message # NoMsg

\* C26: at most one tool call is in flight at any time: while a call is with
\* the worker, abandoned after a timeout or not, the runner is waiting for it
\* (for its result, or in the shutdown of its executor); no other attempt or
\* step is being run and execute_plan has not returned.
C26_OneCallInFlight ==
    /\ worker # "idle" => pc \in {"wait", "shutdown"}
    /\ Cardinality({ k \in 1..Len(calls) : calls[k].outcome = "running" }) <= 1
    /\ \A k \in 1..Len(calls) :
          calls[k].outcome = "running" => (k = Len(calls) /\ pc = "wait")

\* the retry of a step is with the worker after the first call timed out and
\* ended
C26_Witness ==
    /\ pc = "wait"
    /\ worker = "running"
    /\ Len(calls) = 2
    /\ calls[1].outcome = "timeout"
    /\ calls[2].outcome = "running"

\* the names registered by the first n register calls
RegisteredNames(n) == { registered[k].name : k \in 1..n }

\* the function most recently registered under a name by the first n
\* register calls, the default one when there is none
LastRegistered(name, n) ==
    LET ks == { k \in 1..n : registered[k].name = name }
    IN  IF ks = {} THEN DefaultFunction(name)
        ELSE registered[CHOOSE k \in ks : \A j \in ks : j <= k].func

\* C27 (tool registry): after any sequence of register calls, list_tools
\* gives the five default tools and every registered name; get_tool gives the
\* function most recently registered under the name; get_tool of a name never
\* registered raises ValueError; and a lookup leaves the registry unchanged.
C27_Registry ==
    /\ [](/\ got.kind = "names" =>
                got.value = ToolNames \cup RegisteredNames(got.at)
          /\ got.kind = "function" =>
                /\ got.name \in ToolNames \cup RegisteredNames(got.at)
                /\ got.value = {LastRegistered(got.name, got.at)}
          /\ got.kind = "ValueError" =>
                got.name \notin ToolNames \cup RegisteredNames(got.at))
    /\ [][got' # got => UNCHANGED <<tool_registry, functions>>]_vars

\* a default name was registered twice, and get_tool gave the second function
C27_Witness ==
    /\ Len(registered) = 2
    /\ registered[1] = [name |-> "search", func |-> "f"]
    /\ registered[2] = [name |-> "search", func |-> "g"]
    /\ got.kind = "function"
    /\ got.name = "search"
    /\ got.value = {"g"}
    /\ got.at = 2

\* the positions of the steps of the result that are ok, and of those that
\* are ok with an output
OkSteps == { i \in 1..Len(Steps) : Steps[i].status = "ok" }
OkWithOutput == { i \in OkSteps : Steps[i].output # Null }

\* C28: get_final_output gives the output of the last step of result.steps
\* whose status is ok, None when no step is ok; get_step_outputs has exactly
\* the step ids of the steps that are ok with a non-null output as keys, one
\* value per key, the output of the (last) such step with that id.
C28_ResultQueries ==
    /\ got.kind = "final_output" =>
          got.value = { IF OkSteps = {} THEN Null
                        ELSE Steps[CHOOSE i \in OkSteps :
                                      \A j \in OkSteps : j <= i].output }
    /\ got.kind = "step_outputs" =>
          /\ { kv[1] : kv \in got.value } =
                { Steps[i].step_id : i \in OkWithOutput }
          /\ \A kv \in got.value :
                LET same == { i \in OkWithOutput : Steps[i].step_id = kv[1] }
                IN  kv[2] = Steps[CHOOSE i \in same : \A j \in same : j <= i].output
          /\ \A kv1, kv2 \in got.value : kv1[1] = kv2[1] => kv1 = kv2

\* the final output of a result whose first step is ok and whose last step
\* failed is the output of the first step
C28_Witness ==
    /\ got.kind = "final_output"
    /\ Len(Steps) = 2
    /\ Steps[1].status = "ok" /\ Steps[1].output = "<html>"
    /\ Steps[2].status = "error" /\ Steps[2].output = "text"
    /\ got.value = {"<html>"}

\* C29 (step lifecycle): a step result is appended with status running and
\* unfinished; it is finished exactly when its status is not running; and
\* once its status is terminal it is never modified again.
C29_StepLifecycle ==
    /\ [](\A i \in 1..Len(Steps) :
             /\ Steps[i].status \in {"running", "ok", "error", "paused"}
             /\ Steps[i].finished <=> Steps[i].status # "running")
    /\ [][ /\ Len(Steps') > Len(Steps) =>
                /\ Steps'[Len(Steps')].status = "running"
                /\ ~Steps'[Len(Steps')].finished
           /\ \A i \in 1..Len(Steps) :
                Steps[i].status # "running" =>
                    (Len(Steps') >= i /\ Steps'[i] = Steps[i]) ]_vars

\* the lifecycle, for the runs in which no callback raises
C29_LifecycleWithoutRaise ==
    [][ ~cbRaised' =>
          \A i \in 1..Len(Steps) :
             Steps[i].status # "running" =>
                 (Len(Steps') >= i /\ Steps'[i] = Steps[i]) ]_vars

\* the position of the step that the n-th callback reports on: every step
\* result is reported running once, when it is appended
StepOfNote(n) == Cardinality({ m \in 1..n : notes[m].status = "running" })

\* C30: when the callback raises while being told that a step is ok, the
\* step stays ok with its output, its tool is not invoked again, and the
\* step does not count as failed.
C30_OkCallbackRaiseIgnored ==
    \A n \in 1..Len(notes) :
        (notes[n].status = "ok" /\ notes[n].raised) =>
            LET i == StepOfNote(n)
            IN  /\ Steps[i].status = "ok"
                /\ Steps[i].output # Null
                /\ \A k \in CallsOf(i) :
                      calls[k].outcome = "returned" =>
                          \A j \in CallsOf(i) : j <= k

\* C31: result.steps is append-only with one entry per attempted step: the
\* entries are those of the plan steps the loop has arrived at, in order; a
\* step that is retried keeps its single entry; an action appends at most one
\* entry, removes none, and leaves every earlier entry as it is.
C31_StepsAppendOnly ==
    /\ [](/\ Len(Steps) <= Len(plan)
          /\ Len(Steps) <= idx
          /\ \A i \in 1..Len(Steps) : Steps[i].step_id = plan[i].step_id
          /\ \A k \in 1..Len(calls) : calls[k].pos <= Len(Steps))
    /\ [][ /\ Len(Steps') \in {Len(Steps), Len(Steps) + 1}
           /\ \A i \in 1..Len(Steps) :
                 /\ Steps'[i].step_id = Steps[i].step_id
                 /\ i < Len(Steps) => Steps'[i] = Steps[i] ]_vars

\* a step was invoked twice and has one entry, which records the retry
C31_Witness ==
    /\ pc = "returned"
    /\ Len(plan) = 2
    /\ Len(Steps) = 1
    /\ Cardinality(CallsOf(1)) = 2
    /\ Steps[1].retry_count = 1

\* the context entries of the steps at positions 1..n, in the order stored
OutputsBefore(n) == [j \in 1..n |-> <<plan[j].step_id, Steps[j].output>>]

\* C32 (step-context invariant): the context is empty when the run starts;
\* while the tool of the step at position i is being called, the context
\* holds exactly the outputs of the steps before it, each under the key of
\* its step, and those steps are ok; an attempt that has not been marked ok
\* has written nothing.
C32_StepContext ==
    /\ pc \in {"idle", "validate"} => step_context = <<>>
    /\ pc \in {"call_tool", "wait", "shutdown", "except"} =>
          /\ \A j \in 1..(idx - 1) : Steps[j].status = "ok"
          /\ Steps[idx].status # "ok" => step_context = OutputsBefore(idx - 1)

\* the invariant, for plans with sequential step ids
C32_ContextOfSequentialPlan ==
    SequentialIds(plan) => C32_StepContext

----------------------------------------------------------------------------
(* Two threads call execute_plan at the same time, with different task     *)
(* ids, no callback and plans whose steps declare no retry.  They share    *)
(* the cached runner instance and the registry; result and step_context    *)
(* are locals of each call of CustomRunner.execute_plan.                   *)

\* the calling threads
RunIds == {1, 2}
\* longest plan of a concurrent run
MaxRunSteps == 2

\* the page the tools return to a run: the two tasks work on different pages
RunOutput(r) == IF r = 1 THEN "<html>" ELSE "<body>"

\* the steps of the concurrent runs
RunBodies ==
    { [tool |-> "open", args |-> {"url"}, confidence |-> 5,
       retry |-> 0, requires_human |-> FALSE],
      [tool |-> "extract", args |-> {"selector"}, confidence |-> 5,
       retry |-> 0, requires_human |-> FALSE] }

\* plans of open steps that may end in an extract step
RunPlans ==
    UNION { { [i \in 1..n |-> WithId(body[i], i)] :
                body \in { b \in [1..n -> RunBodies] :
                             \A i \in 1..(n - 1) : b[i].tool = "open" } } :
            n \in 1..MaxRunSteps }

\* a thread about to call execute_plan with plan p
NewRun(p) ==
    [pc |-> "idle", plan |-> p, result |-> NoResult, idx |-> 0,
     step_context |-> <<>>, calls |-> <<>>, saved |-> FALSE]

\* a store that goes to one dict shared by all the runs in progress
RunStore_Shared(rs, r, key, value) ==
    [q \in DOMAIN rs |->
        IF q = r \/ rs[q].pc \in {"loop", "wait"}
        THEN [rs[q] EXCEPT !.step_context = DictSet(@, key, value)]
        ELSE rs[q]]

\* line 90: step_context[f"step_{step.step_id}_output"] = output, on the
\* dict that line 65 created in the frame of run r
RunStore(rs, r, key, value) ==
    [rs EXCEPT ![r].step_context = DictSet(@, key, value)]

\* executor.py lines 86-90 and custom_runner.py lines 48-65: get_runner gives
\* the cached instance (constructing it when there is none), whose
\* execute_plan creates the result, validates the plan and creates the context
run_enter(r) ==
    /\ runs[r].pc = "idle"
    /\ custom_runner' = get_runner("ok").custom
    /\ runs' = [runs EXCEPT ![r].pc = "loop",
                            ![r].result = NewResult,
                            ![r].step_context = <<>>]
    /\ UNCHANGED <<plan, pc, result, idx, attempt, step_context, worker,
                   pending, calls, notes, cbRaised, saved, runnerCalls, output,
                   outs, escaped, tool_registry, functions, registered, got,
                   langchain_enabled, langchain_available, langchain_runner,
                   runner, file, services>>

\* lines 67-84 and 153-172: the next step gets its step result and its tool is
\* called with the arguments built from the context of the run
run_call(r) ==
    /\ runs[r].pc = "loop"
    /\ runs[r].idx < Len(runs[r].plan)
    /\ LET i    == runs[r].idx + 1
           step == runs[r].plan[i]
       IN  runs' = [runs EXCEPT
                      ![r].pc = "wait",
                      ![r].idx = i,
                      ![r].result.steps = Append(@, NewStepResult(step.step_id)),
                      ![r].calls = Append(@, [pos |-> i,
                                              html |-> HtmlArg(step, runs[r].step_context)])]
    /\ UNCHANGED <<plan, pc, result, idx, attempt, step_context, worker,
                   pending, calls, notes, cbRaised, saved, runnerCalls, output,
                   outs, escaped, tool_registry, functions, registered, got,
                   langchain_enabled, langchain_available, sel, file, services>>

\* lines 84-90: the tool returns; the step is marked ok and its output stored
run_tool_returns(r) ==
    /\ runs[r].pc = "wait"
    /\ LET i   == runs[r].idx
           out == IF runs[r].plan[i].tool = "open" THEN RunOutput(r) ELSE "text"
           ok  == [runs EXCEPT
                     ![r].pc = "loop",
                     ![r].result.steps[i] = StepMarkFinished(@, "ok", out, NoMsg)]
       IN  runs' = RunStore(ok, r, runs[r].plan[i].step_id, out)
    /\ UNCHANGED <<plan, pc, result, idx, attempt, step_context, worker,
                   pending, calls, notes, cbRaised, saved, runnerCalls, output,
                   outs, escaped, tool_registry, functions, registered, got,
                   langchain_enabled, langchain_available, sel, file, services>>

\* lines 92-138 for a step without retry budget that needs no human: the tool
\* raises, the step and the run are marked error, execute_plan returns and the
\* facade saves the result under the task id (executor.py lines 97-105)
run_tool_raises(r) ==
    /\ runs[r].pc = "wait"
    /\ LET i == runs[r].idx
       IN  runs' = [runs EXCEPT
                      ![r].pc = "returned",
                      ![r].result = ResultMarkFinished(
                          [@ EXCEPT !.steps[i] =
                              StepMarkFinished(@, "error", Null, ToolFailedMsg)],
                          "error", StepFailedMsg(ToolFailedMsg)),
                      ![r].saved = TRUE]
    /\ UNCHANGED <<plan, pc, result, idx, attempt, step_context, worker,
                   pending, calls, notes, cbRaised, saved, runnerCalls, output,
                   outs, escaped, tool_registry, functions, registered, got,
                   langchain_enabled, langchain_available, sel, file, services>>

\* lines 135-138 (after the for loop) and executor.py lines 97-105: all
\* steps are done, the run is marked ok, returned and saved
run_returns(r) ==
    /\ runs[r].pc = "loop"
    /\ runs[r].idx = Len(runs[r].plan)
    /\ runs' = [runs EXCEPT ![r].pc = "returned",
                            ![r].result = ResultMarkFinished(@, "ok", NoMsg),
                            ![r].saved = TRUE]
    /\ UNCHANGED <<plan, pc, result, idx, attempt, step_context, worker,
                   pending, calls, notes, cbRaised, saved, runnerCalls, output,
                   outs, escaped, tool_registry, functions, registered, got,
                   langchain_enabled, langchain_available, sel, file, services>>

NextRuns ==
    \E r \in RunIds :
        \/ run_enter(r)
        \/ run_call(r)
        \/ run_tool_returns(r)
        \/ run_tool_raises(r)
        \/ run_returns(r)

\* two threads about to call execute_plan in a fresh process
InitRuns ==
    /\ Start
    /\ plan = <<>>
    /\ outs = {"<html>"}
    /\ NativeBackend
    /\ functions = [n \in tool_registry |-> DefaultFunction(n)]
    /\ registered = <<>>
    /\ got = NoLookup
    /\ file = NoFile
    /\ NoScheduler
    /\ runs \in [RunIds -> { NewRun(p) : p \in RunPlans }]

SpecRuns == InitRuns /\ [][NextRuns]_vars

\* the outputs of the steps of run r that are ok, under their step ids, in
\* the order of the steps
OwnOutputs(r) ==
    LET st == runs[r].result.steps
        n  == IF Len(st) > 0 /\ st[Len(st)].status # "ok"
              THEN Len(st) - 1 ELSE Len(st)
    IN  [j \in 1..n |-> <<st[j].step_id, st[j].output>>]

\* C33 (run isolation): under any interleaving of two runs that share the
\* runner instance, the step context of each run holds exactly the outputs of
\* its own ok steps, an extract step is given markup of its own run only, and
\* the result of each run holds one step result per step of its own plan that
\* was reached, with an output of its own run.
C33_RunIsolation ==
    \A r \in RunIds :
        /\ runs[r].step_context = OwnOutputs(r)
        /\ \A k \in 1..Len(runs[r].calls) :
              LET c == runs[r].calls[k]
              IN  /\ c.html \in {Null, RunOutput(r)}
                  /\ (runs[r].plan[c.pos].tool = "extract" /\ c.pos > 1)
                        => c.html = RunOutput(r)
        /\ Len(runs[r].result.steps) = runs[r].idx
        /\ \A i \in 1..Len(runs[r].result.steps) :
              LET sr == runs[r].result.steps[i]
              IN  /\ sr.step_id = runs[r].plan[i].step_id
                  /\ sr.output \in {Null, "text", RunOutput(r)}

\* both runs used the one cached runner, their steps interleaved, and the
\* extract step of each was given the page of its own run
C33_Witness ==
    /\ custom_runner
    /\ \A r \in RunIds :
          /\ runs[r].pc = "returned"
          /\ runs[r].result.status = "ok"
          /\ Len(runs[r].plan) = 2
          /\ runs[r].plan[2].tool = "extract"
          /\ runs[r].calls[2].html = RunOutput(r)
          /\ runs[r].step_context =
                <<<<1, RunOutput(r)>>, <<2, "text">>>>

\* C34 (retry accounting): every step result has 0 <= retry_count <=
\* step.retry; at most 1 + step.retry tool invocations are made for a step;
\* once the step is finished its retry_count is the number of invocations
\* made after the first; and the invocations follow the order of the plan, so
\* a retry never goes back to an earlier step.
C34_RetryAccounting ==
    /\ \A i \in 1..Len(Steps) :
          /\ 0 <= Steps[i].retry_count
          /\ Steps[i].retry_count <= plan[i].retry
          /\ Cardinality(CallsOf(i)) <= 1 + plan[i].retry
          /\ Steps[i].finished =>
                Steps[i].retry_count =
                    IF CallsOf(i) = {} THEN 0 ELSE Cardinality(CallsOf(i)) - 1
    /\ \A k, l \in 1..Len(calls) : k < l => calls[k].pos <= calls[l].pos

\* the accounting, for the runs whose tools are all in the registry and
\* whose callback does not raise
C34_AccountingOfRegisteredTools ==
    (~cbRaised /\ \A i \in 1..Len(plan) : plan[i].tool \in tool_registry)
        => C34_RetryAccounting

\* C35 (the facade is a composition point): execute_plan enters the selected
\* runner once and never again; the step from the runner's return to the
\* return of execute_plan leaves the result as the runner gave it and always
\* ends in a normal return, also when the save fails; at most one save is
\* attempted.
C35_FacadeComposition ==
    /\ [](/\ runnerCalls <= 1
          /\ pc \in {"runner_returned", "returned"} => runnerCalls = 1
          /\ Len(saved) <= 1
          /\ saved # <<>> => pc = "returned")
    /\ [][ /\ runnerCalls' >= runnerCalls
           /\ pc = "runner_returned" =>
                 /\ pc' = "returned"
                 /\ result' = result
                 /\ UNCHANGED <<runnerCalls, escaped, calls, notes>>
           /\ pc = "returned" => pc' = "returned" ]_vars

\* a two-step run ended ok, the save of its result failed, and execute_plan
\* returned the result
C35_Witness ==
    /\ pc = "returned"
    /\ saved = <<"failed">>
    /\ escaped = "none"
    /\ runnerCalls = 1
    /\ result.status = "ok"
    /\ Len(Steps) = 2

----------------------------------------------------------------------------
(* Runs whose last step puts the argument building of _execute_step to     *)
(* the test: the steps before it open pages, the last one is an extract    *)
(* step with or without a declared html argument, or another tool.         *)

InjectBodies ==
    [tool : {"extract"}, args : {{"selector"}, {"selector", "html"}},
     confidence : {5}, retry : {0, 1}, requires_human : BOOLEAN]
    \cup
    [tool : {"open", "screenshot"}, args : {{"url"}, {"url", "html"}},
     confidence : {5}, retry : {0, 1}, requires_human : {FALSE}]

InjectPlans ==
    UNION { { [i \in 1..n |-> WithId(IF i < n THEN [tool |-> "open", args |-> {"url"}, confidence |-> 5,
                                           retry |-> 0, requires_human |-> FALSE] ELSE last, i)] :
                last \in InjectBodies } :
            n \in 1..MaxSteps }

InitInject ==
    /\ Start
    /\ plan \in InjectPlans
    /\ outs = {"<html>", "text"}
    /\ NativeBackend
    /\ Loaded

SpecInject == InitInject /\ [][Next]_vars

\* C36 (argument building): a tool is called with the declared html argument
\* when the step declares one; a step that declares none is given html only
\* when its tool is extract, and then a value that is markup; every
\* attempt of a step is given the same html as the first; and no action
\* changes the plan, so the declared args of a step stay as submitted.
C36_ArgumentBuilding ==
    /\ [](\A k \in 1..Len(calls) :
             LET s == plan[calls[k].pos]
             IN  /\ "html" \in s.args => calls[k].html = "declared"
                 /\ ("html" \notin s.args /\ s.tool # "extract")
                       => calls[k].html = Null
                 /\ ("html" \notin s.args /\ s.tool = "extract")
                       => calls[k].html \in Markup \cup {Null}
                 /\ \A l \in CallsOf(calls[k].pos) : calls[l].html = calls[k].html)
    /\ [][ /\ plan' = plan
           /\ Len(calls') > Len(calls) =>
                 calls'[Len(calls')].html = HtmlArg(plan[idx], step_context) ]_vars

\* after a page was opened, an extract step that declares html was called
\* twice, both times with the declared argument and not with the page
C36_Witness ==
    /\ Len(plan) = 2
    /\ plan[2].tool = "extract"
    /\ "html" \in plan[2].args
    /\ Len(Steps) = 2
    /\ Steps[1].output = "<html>"
    /\ Cardinality(CallsOf(2)) = 2
    /\ \A k \in CallsOf(2) : calls[k].html = "declared"

----------------------------------------------------------------------------
(* Persistence of a result: ExecutionResult.to_dict (schema.py),            *)
(* save_execution_result and load_execution_result (executor.py).  A        *)
(* caller holds a finished result, saves it and loads the file.             *)

\* the values a tool may have returned, written as Python writes them: None,
\* a string, a list, a tuple and a bytes object
JsonNative == {Null, "<html>", "['a']"}
PyValues == JsonNative \cup {"('a',)", "b'a'"}

\* json.dump knows None, str, list and tuple; for bytes its default() raises
\* TypeError
JsonSerializable(v) == v # "b'a'"

\* what json.load reads back of a value json.dump wrote: a tuple is written
\* as an array and comes back as a list
JsonValue(v) == IF v = "('a',)" THEN "['a']" ELSE v

\* datetime.isoformat() of a timestamp, None of no timestamp
IsoFormat(set) == IF set THEN "iso" ELSE Null

\* ExecutionResult.to_dict, lines 100-121
to_dict(r) ==
    [task_id       |-> r.task_id,
     status        |-> r.status,
     steps         |-> [i \in 1..Len(r.steps) |->
                          [step_id       |-> r.steps[i].step_id,
                           status        |-> r.steps[i].status,
                           output        |-> r.steps[i].output,
                           error_message |-> r.steps[i].error_message,
                           started_at    |-> IsoFormat(TRUE),
                           finished_at   |-> IsoFormat(r.steps[i].finished),
                           retry_count   |-> r.steps[i].retry_count]],
     created_at    |-> IsoFormat(TRUE),
     finished_at   |-> IsoFormat(r.finished),
     error_message |-> r.error_message,
     session_id    |-> r.session_id]

\* executor.py lines 122-123: open(filepath, 'w') truncates the file and
\* json.dump writes the object into it; when a value is not serializable the
\* TypeError leaves a file that holds the beginning of the object
JsonDump(d) ==
    IF \A i \in 1..Len(d.steps) : JsonSerializable(d.steps[i].output)
    THEN [state |-> "written",
          data  |-> {[d EXCEPT !.steps =
                        [i \in 1..Len(d.steps) |->
                            [d.steps[i] EXCEPT !.output = JsonValue(@)]]]}]
    ELSE [state |-> "partial", data |-> {}]

\* executor.py lines 141-156: the timestamps that are set are parsed and
\* ExecutionResult(**data) builds the result and its step results
FromDict(d) ==
    [exists        |-> TRUE,
     task_id       |-> d.task_id,
     session_id    |-> d.session_id,
     status        |-> d.status,
     finished      |-> d.finished_at # Null,
     error_message |-> d.error_message,
     steps         |-> [i \in 1..Len(d.steps) |->
                          [step_id       |-> d.steps[i].step_id,
                           status        |-> d.steps[i].status,
                           output        |-> d.steps[i].output,
                           error_message |-> d.steps[i].error_message,
                           finished      |-> d.steps[i].finished_at # Null,
                           retry_count   |-> d.steps[i].retry_count]]]

\* save_execution_result(result), lines 108-126
save_execution_result ==
    /\ file.state = "none"
    /\ file' = JsonDump(to_dict(result))
    /\ got' = [kind |-> IF file'.state = "written" THEN "saved" ELSE "TypeError",
               name |-> "none", value |-> {}, at |-> 0]
    /\ UNCHANGED <<tool_registry, functions, registered, langchain_enabled,
                   langchain_available, runs, plan, pc, result, idx, attempt,
                   step_context, worker, pending, calls, notes, cbRaised,
                   saved, runnerCalls, output, outs, escaped, sel, services>>

\* load_execution_result(filepath), lines 129-156, of the file saved: json.load
\* raises JSONDecodeError on a file that holds part of an object
load_execution_result ==
    /\ file.state # "none"
    /\ got' = IF file.state = "written"
              THEN [kind |-> "loaded", name |-> "none",
                    value |-> { FromDict(d) : d \in file.data }, at |-> 0]
              ELSE [kind |-> "JSONDecodeError", name |-> "none",
                    value |-> {}, at |-> 0]
    /\ UNCHANGED <<tool_registry, functions, registered, langchain_enabled,
                   langchain_available, runs, file, plan, pc, result, idx,
                   attempt, step_context, worker, pending, calls, notes,
                   cbRaised, saved, runnerCalls, output, outs, escaped, sel,
                   services>>

NextSaved ==
    \/ save_execution_result
    \/ load_execution_result

\* the step results of a finished run: ok with an output of the tool, or
\* failed after a retry
SavedSteps(i) ==
    { [step_id |-> i, status |-> "ok", output |-> v, error_message |-> NoMsg,
       finished |-> TRUE, retry_count |-> 0] : v \in PyValues }
    \cup
    { [step_id |-> i, status |-> st, output |-> Null,
       error_message |-> AfterRetriesMsg(ToolFailedMsg),
       finished |-> TRUE, retry_count |-> 1] : st \in {"error", "paused"} }

\* the step results of a run that ended: ok steps, then possibly a failed one
SavedStepLists ==
    UNION { { f \in [1..m -> UNION { SavedSteps(i) : i \in 1..m }] :
                /\ \A i \in 1..m : f[i].step_id = i
                /\ \A i \in 1..(m - 1) : f[i].status = "ok" } :
            m \in 0..MaxSteps }

\* the finished results of runs of up to MaxSteps steps, with and without a
\* session: a rejected plan, a run that ended ok, error or paused
SavedResults ==
    { [exists |-> TRUE, task_id |-> "task-1", session_id |-> sid,
       status |-> IF st = <<>> THEN "error" ELSE st[Len(st)].status,
       steps |-> st, finished |-> TRUE,
       error_message |->
          IF st = <<>> THEN InvalidPlanMsg
          ELSE CASE st[Len(st)].status = "ok"     -> NoMsg
                 [] st[Len(st)].status = "paused" -> RequiresHumanMsg
                 [] st[Len(st)].status = "error"  ->
                       StepFailedMsg(AfterRetriesMsg(ToolFailedMsg))] :
        sid \in {Null, "session-1"}, st \in SavedStepLists }

\* a caller holds a finished result; no file of the task exists
InitSaved ==
    /\ pc = "returned"
    /\ result \in SavedResults
    /\ plan = <<>>
    /\ idx = 0
    /\ attempt = 0
    /\ step_context = <<>>
    /\ worker = "idle"
    /\ pending = NoMsg
    /\ calls = <<>>
    /\ notes = <<>>
    /\ cbRaised = FALSE
    /\ saved = <<>>
    /\ runnerCalls = 1
    /\ output = Null
    /\ escaped = "none"
    /\ runner = "custom"
    /\ outs = {"<html>"}
    /\ tool_registry = Registry
    /\ langchain_enabled = FALSE
    /\ langchain_available = FALSE
    /\ custom_runner = TRUE
    /\ langchain_runner = FALSE
    /\ Loaded

SpecSaved == InitSaved /\ [][NextSaved]_vars

\* the fields of the serialized result and of its steps
ResultFields ==
    {"task_id", "status", "steps", "created_at", "finished_at",
     "error_message", "session_id"}
StepFields ==
    {"step_id", "status", "output", "error_message", "started_at",
     "finished_at", "retry_count"}

\* C37 (serialization round trip): saving a finished result writes a JSON
\* object with all the documented fields, and loading it gives a result with
\* the same task_id, session_id, status, error_message and the same steps in
\* order (step_id, status, output, error_message, retry_count).
C37_RoundTrip ==
    /\ file.state \in {"none", "written"}
    /\ \A d \in file.data :
          /\ DOMAIN d = ResultFields
          /\ \A i \in 1..Len(d.steps) : DOMAIN d.steps[i] = StepFields
    /\ got.kind = "loaded" =>
          \A l \in got.value :
             /\ l.task_id = result.task_id
             /\ l.session_id = result.session_id
             /\ l.status = result.status
             /\ l.error_message = result.error_message
             /\ Len(l.steps) = Len(Steps)
             /\ \A i \in 1..Len(Steps) :
                   /\ l.steps[i].step_id = Steps[i].step_id
                   /\ l.steps[i].status = Steps[i].status
                   /\ l.steps[i].output = Steps[i].output
                   /\ l.steps[i].error_message = Steps[i].error_message
                   /\ l.steps[i].retry_count = Steps[i].retry_count

\* the round trip, for the results whose outputs are values JSON has
C37_RoundTripOfJsonOutputs ==
    (\A i \in 1..Len(Steps) : Steps[i].output \in JsonNative)
        => C37_RoundTrip

\* a result whose outputs are values JSON has was saved and loaded
C37_JsonOutputsLoaded ==
    /\ got.kind = "loaded"
    /\ Len(Steps) = 2
    /\ Steps[1].output = "['a']"
    /\ Steps[2].status = "error"

----------------------------------------------------------------------------
(* The fallback scheduler (tasks/scheduler.py, used when rq_scheduler is   *)
(* not installed).  Clients schedule and cancel jobs while the scheduler   *)
(* process polls: one pass of _basic_run reads the ready job ids and       *)
(* processes them one by one; the clock may advance and clients may act    *)
(* between two Redis commands of the pass.                                 *)

\* most jobs scheduled
MaxJobs == 2
\* latest time of the clock and of a job
MaxTime == 2
\* most polling passes
MaxPasses == 2

\* what the scheduler leaves alone: the orchestrator and the browser sessions
orchestrator ==
    <<plan, pc, result, idx, attempt, step_context, worker, pending, calls,
      notes, cbRaised, saved, runnerCalls, output, outs, escaped, sel,
      tool_registry, functions, registered, got, langchain_enabled,
      langchain_available, runs, file, browsing>>

\* a dict or sorted set without the key
Remove(d, key) == [n \in DOMAIN d \ {key} |-> d[n]]

\* zrangebyscore("scheduled_jobs", 0, current_time): the members with a score
\* in the range, by score and then by member
RECURSIVE ByScore(_, _)
ByScore(zset, ids) ==
    IF ids = {} THEN <<>>
    ELSE LET first == CHOOSE i \in ids :
                         \A j \in ids : \/ zset[i] < zset[j]
                                        \/ zset[i] = zset[j] /\ i <= j
         IN  <<first>> \o ByScore(zset, ids \ {first})

zrangebyscore(zset, min, max) ==
    ByScore(zset, { i \in DOMAIN zset : min <= zset[i] /\ zset[i] <= max })

\* the hand of the clock moves
tick ==
    /\ now < MaxTime
    /\ now' = now + 1
    /\ UNCHANGED <<scheduled_jobs, job_data, queue, poll, jobs, orchestrator>>

\* _basic_schedule_at, lines 136-171: a fresh job id, its hash, its entry in
\* the sorted set under the timestamp of the requested time
basic_schedule_at ==
    /\ Len(jobs) < MaxJobs
    /\ \E datetime_obj \in 0..MaxTime :
          LET job_id == Len(jobs) + 1
          IN  /\ job_data' = job_data \cup {job_id}
              /\ scheduled_jobs' = Put(scheduled_jobs, job_id, datetime_obj)
              /\ jobs' = Append(jobs, [scheduled_at |-> datetime_obj,
                                       cancelled |-> "no", failed |-> FALSE])
    /\ UNCHANGED <<queue, poll, now, orchestrator>>

\* _basic_cancel, lines 173-181: zrem and delete
basic_cancel ==
    /\ \E job_id \in 1..Len(jobs) :
          /\ jobs[job_id].cancelled = "no"
          /\ scheduled_jobs' = Remove(scheduled_jobs, job_id)
          /\ job_data' = job_data \ {job_id}
          /\ jobs' = [jobs EXCEPT ![job_id].cancelled =
                         IF now < jobs[job_id].scheduled_at
                         THEN "before due" ELSE "when due"]
    /\ UNCHANGED <<queue, poll, now, orchestrator>>

\* _basic_run, lines 218-227: a pass starts by reading the clock and the ids
\* of the jobs whose timestamp is between 0 and the current time
read_ready_jobs ==
    /\ poll.pc = "sleep"
    /\ poll.passes < MaxPasses
    /\ poll' = [poll EXCEPT !.pc = "loop",
                            !.current_time = now,
                            !.ready_job_ids = zrangebyscore(scheduled_jobs, 0, now),
                            !.pos = 0]
    /\ UNCHANGED <<scheduled_jobs, job_data, queue, now, jobs, orchestrator>>

\* a pass that keeps a job whose processing failed
process_job_KeepFailed ==
    /\ poll.pc = "loop"
    /\ poll.pos < Len(poll.ready_job_ids)
    /\ poll' = [poll EXCEPT !.pos = @ + 1]
    /\ LET job_id == poll.ready_job_ids[poll.pos + 1]
       IN  IF job_id \notin job_data
           THEN UNCHANGED <<scheduled_jobs, job_data, queue, jobs>>
           ELSE \E enqueued \in BOOLEAN :
                   IF enqueued
                   THEN /\ queue' = Append(queue, job_id)
                        /\ scheduled_jobs' = Remove(scheduled_jobs, job_id)
                        /\ job_data' = job_data \ {job_id}
                        /\ UNCHANGED jobs
                   ELSE /\ jobs' = [jobs EXCEPT ![job_id].failed = TRUE]
                        /\ UNCHANGED <<scheduled_jobs, job_data, queue>>
    /\ UNCHANGED <<now, orchestrator>>

\* lines 229-271, one iteration of the for loop: a job without hash is
\* skipped; otherwise the job is enqueued and removed, or, when importing the
\* function or enqueueing raises, removed without being enqueued
process_job ==
    /\ poll.pc = "loop"
    /\ poll.pos < Len(poll.ready_job_ids)
    /\ poll' = [poll EXCEPT !.pos = @ + 1]
    /\ LET job_id == poll.ready_job_ids[poll.pos + 1]
       IN  IF job_id \notin job_data
           THEN UNCHANGED <<scheduled_jobs, job_data, queue, jobs>>
           ELSE /\ scheduled_jobs' = Remove(scheduled_jobs, job_id)
                /\ job_data' = job_data \ {job_id}
                /\ \E enqueued \in BOOLEAN :
                      IF enqueued
                      THEN /\ queue' = Append(queue, job_id)
                           /\ UNCHANGED jobs
                      ELSE /\ jobs' = [jobs EXCEPT ![job_id].failed = TRUE]
                           /\ UNCHANGED queue
    /\ UNCHANGED <<now, orchestrator>>

\* lines 273-277: the for loop is over; the pass ends (break of a burst run,
\* or sleep until the next pass)
end_pass ==
    /\ poll.pc = "loop"
    /\ poll.pos = Len(poll.ready_job_ids)
    /\ poll' = [poll EXCEPT !.pc = "sleep", !.passes = @ + 1]
    /\ UNCHANGED <<scheduled_jobs, job_data, queue, now, jobs, orchestrator>>

NextScheduler ==
    \/ tick
    \/ basic_schedule_at
    \/ basic_cancel
    \/ read_ready_jobs
    \/ process_job
    \/ end_pass

\* nothing is scheduled; the scheduler process is about to poll
InitScheduler ==
    /\ Start
    /\ plan = <<>>
    /\ outs = {"<html>"}
    /\ NativeBackend
    /\ Loaded

SpecScheduler == InitScheduler /\ [][NextScheduler]_vars

\* the step that ends a polling pass
PassEnds == poll.pc = "loop" /\ poll'.pc = "sleep"

\* the jobs in the queue
Enqueued == { queue[k] : k \in 1..Len(queue) }

\* at most once in the queue; failed jobs dropped; jobs cancelled before they
\* were due never enqueued
QueueDiscipline ==
    /\ \A k, l \in 1..Len(queue) : queue[k] = queue[l] => k = l
    /\ \A j \in 1..Len(jobs) :
          /\ jobs[j].failed =>
                (j \notin Enqueued /\ j \notin DOMAIN scheduled_jobs)
          /\ jobs[j].cancelled = "before due" => j \notin Enqueued

\* C38 (fallback scheduler): when a polling pass ends, no job whose scheduled
\* time is at or before the current time of the pass is in the scheduled
\* set; a job is enqueued at most once; a job whose processing failed is
\* dropped and not retried; a job cancelled before it was due is never
\* enqueued.
C38_PassClearsDueJobs ==
    /\ [][ PassEnds =>
             \A j \in DOMAIN scheduled_jobs' :
                scheduled_jobs'[j] > poll.current_time ]_vars
    /\ []QueueDiscipline

\* C38, amended: when a polling pass ends, no job that the pass read as ready
\* is in the scheduled set, and the pass read as ready every job that was in
\* the set with a timestamp from 0 to its current time; the queue
\* discipline is as claimed.
C38_PassClearsReadJobs ==
    /\ [][ /\ PassEnds =>
                \A k \in 1..Len(poll.ready_job_ids) :
                   poll.ready_job_ids[k] \notin DOMAIN scheduled_jobs'
           /\ (poll.pc = "sleep" /\ poll'.pc = "loop") =>
                { poll'.ready_job_ids[k] : k \in 1..Len(poll'.ready_job_ids) }
                   = { j \in DOMAIN scheduled_jobs :
                          /\ 0 <= scheduled_jobs[j]
                          /\ scheduled_jobs[j] <= poll'.current_time } ]_vars
    /\ []QueueDiscipline

\* a pass has enqueued the job it read; a job scheduled during the pass for a
\* time before the pass's current time is still in the set after the pass
C38_Witness ==
    /\ poll.pc = "sleep"
    /\ poll.passes = 1
    /\ poll.ready_job_ids = <<1>>
    /\ queue = <<1>>
    /\ 2 \in DOMAIN scheduled_jobs
    /\ scheduled_jobs[2] < poll.current_time

----------------------------------------------------------------------------
(* The session manager of the browser service                              *)
(* (browser_service/session_manager.py).  Its operations are called one    *)
(* after the other; saving a storage state, closing a context and          *)
(* creating a context may each fail.  Time is counted in units of 1800     *)
(* seconds.                                                                *)

\* the session ids the callers use
SessionIds == {"s1", "s2"}
\* most contexts the browser creates
MaxContexts == 2

\* lines 103-104: max_session_age = 3600 and max_idle_time = 1800 seconds
max_session_age == 2
max_idle_time == 1

\* what the session manager leaves alone
notBrowsing ==
    <<plan, pc, result, idx, attempt, step_context, worker, pending, calls,
      notes, cbRaised, saved, runnerCalls, output, outs, escaped, sel,
      tool_registry, functions, registered, langchain_enabled,
      langchain_available, runs, file, scheduled_jobs, job_data, queue, poll,
      jobs, now>>

\* what an operation gave its caller
Gave(kind, id, value, failed) ==
    [kind |-> kind, name |-> id, value |-> value, at |-> 0, failed |-> failed]

\* set_browser, lines 108-110
set_browser ==
    /\ ~browser
    /\ browser' = TRUE
    /\ UNCHANGED <<sessions, contexts, storage, got, notBrowsing>>

\* create_session, lines 112-157: RuntimeError without browser; the existing
\* context when the id has a session; otherwise a context from
\* browser.new_context (whose failure leaves the manager as it was), stored
\* under the id
create_session ==
    /\ \E session_id \in SessionIds, created \in BOOLEAN :
          IF ~browser
          THEN /\ got' = Gave("RuntimeError", session_id, {}, {})
               /\ UNCHANGED <<sessions, contexts>>
          ELSE IF session_id \in DOMAIN sessions
          THEN /\ got' = Gave("create_session", session_id,
                              {sessions[session_id].context}, {})
               /\ UNCHANGED <<sessions, contexts>>
          ELSE IF created /\ Len(contexts) < MaxContexts
          THEN LET context == Len(contexts) + 1
               IN  /\ contexts' = Append(contexts, [session_id |-> session_id,
                                                    close_called |-> FALSE])
                   /\ sessions' = Put(sessions, session_id,
                                      [context |-> context, created_at |-> now,
                                       last_used |-> now])
                   /\ got' = Gave("create_session", session_id, {context}, {})
          ELSE /\ got' = Gave("new_context failed", session_id, {}, {})
               /\ UNCHANGED <<sessions, contexts>>
    /\ UNCHANGED <<browser, storage, notBrowsing>>

\* get_session, lines 159-174
get_session ==
    /\ \E session_id \in SessionIds :
          IF session_id \notin DOMAIN sessions
          THEN /\ got' = Gave("get_session", session_id, {}, {})
               /\ UNCHANGED sessions
          ELSE /\ sessions' = [sessions EXCEPT ![session_id].last_used = now]
               /\ got' = Gave("get_session", session_id,
                              {sessions[session_id].context}, {})
    /\ UNCHANGED <<browser, contexts, storage, notBrowsing>>

\* the sessions, contexts and storage files after close_session of the ids,
\* whose saves and closes fail for the ids in save_failed and close_failed
Closed(ids, save_state, save_failed, close_failed) ==
    [sessions |-> [n \in DOMAIN sessions \ ids |-> sessions[n]],
     contexts |-> [c \in 1..Len(contexts) |->
                     IF \E n \in ids \cap DOMAIN sessions : sessions[n].context = c
                     THEN [contexts[c] EXCEPT !.close_called = TRUE]
                     ELSE contexts[c]],
     storage  |-> IF save_state
                  THEN storage \cup ((ids \cap DOMAIN sessions) \ save_failed)
                  ELSE storage]

\* a close_session that leaves the session in place when closing the context
\* fails
close_session_KeepOnFailure ==
    /\ \E session_id \in SessionIds, save_state \in BOOLEAN,
          save_failed \in BOOLEAN, close_failed \in BOOLEAN :
          IF session_id \notin DOMAIN sessions
          THEN /\ got' = Gave("close_session", session_id, {}, {})
               /\ UNCHANGED <<sessions, contexts, storage>>
          ELSE LET c == Closed({session_id}, save_state,
                               IF save_failed THEN {session_id} ELSE {},
                               IF close_failed THEN {session_id} ELSE {})
               IN  /\ sessions' = IF close_failed THEN sessions ELSE c.sessions
                   /\ contexts' = c.contexts
                   /\ storage' = c.storage
                   /\ got' = Gave("close_session", session_id, {},
                                  (IF save_state /\ save_failed THEN {"save"} ELSE {})
                                  \cup (IF close_failed THEN {"close"} ELSE {}))
    /\ UNCHANGED <<browser, notBrowsing>>

\* close_session, lines 231-261: nothing for an id without session; otherwise
\* the state is saved when asked, the context is closed, both failures are
\* logged, and the entry is deleted
close_session ==
    /\ \E session_id \in SessionIds, save_state \in BOOLEAN,
          save_failed \in BOOLEAN, close_failed \in BOOLEAN :
          IF session_id \notin DOMAIN sessions
          THEN /\ got' = Gave("close_session", session_id, {}, {})
               /\ UNCHANGED <<sessions, contexts, storage>>
          ELSE LET c == Closed({session_id}, save_state,
                               IF save_failed THEN {session_id} ELSE {},
                               IF close_failed THEN {session_id} ELSE {})
               IN  /\ sessions' = c.sessions
                   /\ contexts' = c.contexts
                   /\ storage' = c.storage
                   /\ got' = Gave("close_session", session_id, {},
                                  (IF save_state /\ save_failed THEN {"save"} ELSE {})
                                  \cup (IF close_failed THEN {"close"} ELSE {}))
    /\ UNCHANGED <<browser, notBrowsing>>

\* lines 265-270: the sessions older than max_session_age or idle for longer
\* than max_idle_time
expired_sessions ==
    { n \in DOMAIN sessions : \/ now - sessions[n].created_at > max_session_age
                              \/ now - sessions[n].last_used > max_idle_time }

\* cleanup_expired_sessions, lines 263-274: close_session of every expired
\* session
cleanup_expired_sessions ==
    /\ \E save_failed \in SUBSET expired_sessions,
          close_failed \in SUBSET expired_sessions :
          LET c == Closed(expired_sessions, TRUE, save_failed, close_failed)
          IN  /\ sessions' = c.sessions
              /\ contexts' = c.contexts
              /\ storage' = c.storage
              /\ got' = Gave("cleanup", "none", {},
                             (IF save_failed # {} THEN {"save"} ELSE {})
                             \cup (IF close_failed # {} THEN {"close"} ELSE {}))
    /\ UNCHANGED <<browser, notBrowsing>>

NextSessions ==
    \/ set_browser
    \/ create_session
    \/ get_session
    \/ close_session
    \/ cleanup_expired_sessions
    \/ tick

\* a session manager as constructed
InitSessions ==
    /\ Start
    /\ plan = <<>>
    /\ outs = {"<html>"}
    /\ NativeBackend
    /\ Loaded

SpecSessions == InitSessions /\ [][NextSessions]_vars

\* the contexts created for a session id on which close() was not called
LiveContexts(id) ==
    { c \in 1..Len(contexts) :
         contexts[c].session_id = id /\ ~contexts[c].close_called }

\* C39 (session manager): a session id has at most one browser context, the
\* one its session holds (none when it has no session); create_session for
\* an id that has a session gives that context and creates none; after
\* close_session the id has no session, also when saving the storage state
\* or closing the context failed.
C39_SessionManager ==
    /\ [](/\ \A id \in SessionIds :
               LiveContexts(id) = IF id \in DOMAIN sessions
                                  THEN {sessions[id].context} ELSE {}
          /\ got.kind = "close_session" => got.name \notin DOMAIN sessions)
    /\ [][ \A id \in SessionIds :
              (id \in DOMAIN sessions
                 /\ got'.kind = "create_session" /\ got'.name = id)
                => /\ got'.value = {sessions[id].context}
                   /\ UNCHANGED <<sessions, contexts>> ]_vars

\* a session was closed although saving its state and closing its context
\* both failed
C39_Witness ==
    /\ got.kind = "close_session"
    /\ got.failed = {"save", "close"}
    /\ got.name = "s1"
    /\ "s1" \notin DOMAIN sessions
    /\ \E c \in 1..Len(contexts) :
          contexts[c].session_id = "s1" /\ contexts[c].close_called

====
